---------------------------- MODULE Spec2Model ----------------------------
(***************************************************************************)
(* A model of alumnic, the program that registers students of the         *)
(* Instituto de Computacao in the LDAP directory after authenticating     *)
(* their enrollment document in the Gnosys/SIGA portal.                    *)
(*                                                                         *)
(* Strings are sequences of characters.  An ASCII character is the TLA+   *)
(* string of length one; a non-ASCII character is named: an accented      *)
(* letter by its letter and its mark ("a_agudo" is U+00E1, "E_circ" is    *)
(* U+00CA, "u_trema" is U+00FC, "c_cedilha" is U+00E7), "euro" is U+20AC, *)
(* "nbsp" is U+00A0, "eszett" is U+00DF, "tres_arabe" is U+0663, ARABIC-   *)
(* INDIC DIGIT THREE.  Two ASCII characters that a TLA+ string cannot     *)
(* hold are named too: "vt" is U+000B and "crase" is U+0060.               *)
(***************************************************************************)
EXTENDS Integers, Sequences, FiniteSets, TLC

(***************************************************************************)
(* Characters                                                              *)
(***************************************************************************)
Minusculas ==
    <<"a","b","c","d","e","f","g","h","i","j","k","l","m",
      "n","o","p","q","r","s","t","u","v","w","x","y","z">>

Maiusculas ==
    <<"A","B","C","D","E","F","G","H","I","J","K","L","M",
      "N","O","P","Q","R","S","T","U","V","W","X","Y","Z">>

Digitos == {"0","1","2","3","4","5","6","7","8","9"}

Range(s) == {s[i] : i \in DOMAIN s}

\* Letters with a diacritic: <<character, base letter of its canonical
\* decomposition, its lowercase form, its uppercase form>>.
Acentuadas ==
    { <<"a_agudo", "a", "a_agudo", "A_agudo">>,
      <<"A_agudo", "A", "a_agudo", "A_agudo">>,
      <<"a_grave", "a", "a_grave", "A_grave">>,
      <<"A_grave", "A", "a_grave", "A_grave">>,
      <<"a_circ", "a", "a_circ", "A_circ">>,
      <<"A_circ", "A", "a_circ", "A_circ">>,
      <<"a_til", "a", "a_til", "A_til">>,
      <<"A_til", "A", "a_til", "A_til">>,
      <<"e_agudo", "e", "e_agudo", "E_agudo">>,
      <<"E_agudo", "E", "e_agudo", "E_agudo">>,
      <<"e_circ", "e", "e_circ", "E_circ">>,
      <<"E_circ", "E", "e_circ", "E_circ">>,
      <<"i_agudo", "i", "i_agudo", "I_agudo">>,
      <<"I_agudo", "I", "i_agudo", "I_agudo">>,
      <<"o_agudo", "o", "o_agudo", "O_agudo">>,
      <<"O_agudo", "O", "o_agudo", "O_agudo">>,
      <<"o_circ", "o", "o_circ", "O_circ">>,
      <<"O_circ", "O", "o_circ", "O_circ">>,
      <<"o_til", "o", "o_til", "O_til">>,
      <<"O_til", "O", "o_til", "O_til">>,
      <<"u_agudo", "u", "u_agudo", "U_agudo">>,
      <<"U_agudo", "U", "u_agudo", "U_agudo">>,
      <<"u_trema", "u", "u_trema", "U_trema">>,
      <<"U_trema", "U", "u_trema", "U_trema">>,
      <<"c_cedilha", "c", "c_cedilha", "C_cedilha">>,
      <<"C_cedilha", "C", "c_cedilha", "C_cedilha">> }

LetrasAcentuadas == {t[1] : t \in Acentuadas}

EhAcentuada(c) == c \in LetrasAcentuadas

Acento(c) == CHOOSE t \in Acentuadas : t[1] = c

\* char::is_ascii on the characters of the model: the named characters are
\* the non-ASCII ones, but for "vt" and "crase", which TLA+ cannot write.
is_ascii(c) == Len(c) = 1 \/ c \in {"vt", "crase"}

LetrasMinusculas == Range(Minusculas)

LetrasMaiusculas == Range(Maiusculas)

is_ascii_lowercase(c) == c \in LetrasMinusculas

is_ascii_uppercase(c) == c \in LetrasMaiusculas

is_ascii_digit(c) == c \in Digitos

IndiceDe(c, s) == CHOOSE i \in DOMAIN s : s[i] = c

to_ascii_lowercase(c) ==
    IF is_ascii_uppercase(c) THEN Minusculas[IndiceDe(c, Maiusculas)] ELSE c

\* char::to_lowercase / char::to_uppercase (Unicode aware).
to_lowercase(c) ==
    IF is_ascii_uppercase(c) THEN Minusculas[IndiceDe(c, Maiusculas)]
    ELSE IF EhAcentuada(c) THEN Acento(c)[3]
    ELSE c

\* char::to_uppercase yields the characters of the uppercase form: two for
\* "eszett" (U+00DF), one for every other character of the model.
to_uppercase(c) ==
    IF is_ascii_lowercase(c) THEN <<Maiusculas[IndiceDe(c, Minusculas)]>>
    ELSE IF EhAcentuada(c) THEN <<Acento(c)[4]>>
    ELSE IF c = "eszett" THEN <<"S", "S">>
    ELSE <<c>>

\* char::is_whitespace: the Unicode White_Space characters of the model.
is_whitespace(c) == c \in {" ", "\t", "\n", "vt", "\f", "\r", "nbsp"}

\* The canonical decomposition (NFD) of one character followed by the
\* is_ascii filter: the base letter of an accented letter, the character
\* itself when it is ASCII, nothing for any other non-ASCII character.
nfd_ascii(c) ==
    IF is_ascii(c) THEN <<c>>
    ELSE IF EhAcentuada(c) THEN <<Acento(c)[2]>>
    ELSE <<>>

(***************************************************************************)
(* Strings                                                                 *)
(***************************************************************************)
RECURSIVE Concat(_)
Concat(ss) == IF ss = <<>> THEN <<>> ELSE Head(ss) \o Concat(Tail(ss))

RECURSIVE Join(_, _)
Join(ss, sep) ==
    IF ss = <<>> THEN <<>>
    ELSE IF Len(ss) = 1 THEN Head(ss)
    ELSE Head(ss) \o sep \o Join(Tail(ss), sep)

\* str::split_whitespace: the maximal runs of non-whitespace characters.
RECURSIVE SplitAcc(_, _, _)
SplitAcc(s, atual, feitas) ==
    IF s = <<>> THEN (IF atual = <<>> THEN feitas ELSE Append(feitas, atual))
    ELSE IF is_whitespace(Head(s))
         THEN SplitAcc(Tail(s), <<>>,
                       IF atual = <<>> THEN feitas ELSE Append(feitas, atual))
         ELSE SplitAcc(Tail(s), Append(atual, Head(s)), feitas)

split_whitespace(s) == SplitAcc(s, <<>>, <<>>)

\* A truncate that cuts nothing.
TruncateNada(s, n) == s


Truncate(s, n) == IF Len(s) > n THEN SubSeq(s, 1, n) ELSE s

(***************************************************************************)
(* utils/nome.rs                                                           *)
(***************************************************************************)
Particulas == { <<"d","e">>, <<"d","o">>, <<"d","a">>,
                <<"d","o","s">>, <<"d","a","s">> }

MaxNomes == 10

NomeOk(v) == [ok |-> TRUE, nome |-> v, erro |-> "-"]

NomeErr(e) == [ok |-> FALSE, nome |-> <<>>, erro |-> e]

\* The sanitised characters of from_str before the letter-or-space test:
\* cedillas replaced by "C", NFD, non-ASCII dropped, ASCII lowercased.
Sanitizar(s) ==
    LET semCedilha == [i \in DOMAIN s |->
                          IF s[i] \in {"c_cedilha", "C_cedilha"} THEN "C" ELSE s[i]]
        ascii == Concat([i \in DOMAIN s |-> nfd_ascii(semCedilha[i])])
    IN  [i \in DOMAIN ascii |-> to_ascii_lowercase(ascii[i])]

\* <Nome as FromStr>::from_str
from_str(s) ==
    LET san == Sanitizar(s)
    IN  IF \E i \in DOMAIN san : ~(is_ascii_lowercase(san[i]) \/ san[i] = " ")
        THEN NomeErr("CaracterEstranho")
        ELSE LET v == Truncate(SelectSeq(split_whitespace(san),
                                         LAMBDA x : x \notin Particulas),
                               MaxNomes)
             IN  IF Len(v) > 1 THEN NomeOk(v) ELSE NomeErr("NomeCurto")

Pow2(k) == 2 ^ k

MaxUsername == 20

\* The k-th element (from 0) of repeat_n([false, true], n).multi_cartesian_product():
\* the last position changes fastest.
Mascara(m, k) == [i \in 1..k |-> ((m \div Pow2(k - i)) % 2) = 1]

expansao_sobrenomica(mask, names) ==
    names[1] \o Concat([i \in DOMAIN mask |->
                           IF mask[i] THEN names[i + 1] ELSE <<names[i + 1][1]>>])

\* Nome::usernames, as the sequence the iterator yields.
usernames(nome) ==
    LET k == Len(nome) - 1
        todos == [m \in 1..Pow2(k) |-> expansao_sobrenomica(Mascara(m - 1, k), nome)]
    IN  SelectSeq(todos, LAMBDA u : Len(u) < MaxUsername)

(***************************************************************************)
(* Regular expressions of utils/validacao_entradas.rs.  A pattern is a    *)
(* sequence of items [cls, min, max, grp]: between min and max characters *)
(* of the class cls, greedy, captured into group grp (0: not captured).   *)
(* The whole pattern is anchored at both ends (every pattern of the file  *)
(* is ^...$).  Matching is leftmost-first with backtracking, as in the    *)
(* regex crate.                                                            *)
(***************************************************************************)
MaxRep == 1000

\* \s of the regex crate: the Unicode White_Space characters of the model.
ClsS == {" ", "\t", "\n", "vt", "\f", "\r", "nbsp"}

\* \d of the regex crate is Unicode aware: every decimal digit (Nd), of
\* which the model has the ASCII ones and "tres_arabe".
ClsD == Digitos \cup {"tres_arabe"}

ClsHex == Digitos \cup {"A", "B", "C", "D", "E", "F"}

It(cls, min, max, grp) == [cls |-> cls, min |-> min, max |-> max, grp |-> grp]

Ws == It(ClsS, 0, MaxRep, 0)

Lit(c) == It({c}, 1, 1, 0)

Opt(c) == It({c}, 0, 1, 0)

SemCapturas == [g \in 1..8 |-> <<>>]

Falha == [ok |-> FALSE, caps |-> SemCapturas]

\* How many characters of s from position pos on are in cls, at most max.
RECURSIVE Corrida(_, _, _, _)
Corrida(s, pos, cls, max) ==
    IF max = 0 \/ pos > Len(s) \/ s[pos] \notin cls THEN 0
    ELSE 1 + Corrida(s, pos + 1, cls, max - 1)

RECURSIVE MatchFrom(_, _, _, _, _)
RECURSIVE TentarN(_, _, _, _, _, _)
MatchFrom(re, k, s, pos, caps) ==
    IF k > Len(re)
    THEN (IF pos = Len(s) + 1 THEN [ok |-> TRUE, caps |-> caps] ELSE Falha)
    ELSE TentarN(re, k, s, pos, caps, Corrida(s, pos, re[k].cls, re[k].max))

TentarN(re, k, s, pos, caps, n) ==
    IF n < re[k].min THEN Falha
    ELSE LET g == re[k].grp
             caps2 == IF g = 0 THEN caps
                      ELSE [caps EXCEPT ![g] = @ \o SubSeq(s, pos, pos + n - 1)]
             r == MatchFrom(re, k + 1, s, pos + n, caps2)
         IN  IF r.ok THEN r ELSE TentarN(re, k, s, pos, caps, n - 1)

Captures(re, s) == MatchFrom(re, 1, s, 1, SemCapturas)

\* Regex::captures for a pattern with alternatives tried in order.
RECURSIVE CapturesAlt(_, _)
CapturesAlt(res, s) ==
    IF res = <<>> THEN Falha
    ELSE LET r == Captures(Head(res), s)
         IN  IF r.ok THEN r ELSE CapturesAlt(Tail(res), s)

(***************************************************************************)
(* Numbers and their decimal text                                          *)
(***************************************************************************)
DigitosSeq == <<"0","1","2","3","4","5","6","7","8","9">>

ValorDigito(c) == IndiceDe(c, DigitosSeq) - 1

RECURSIVE ParseNat(_)
ParseNat(s) ==
    IF s = <<>> THEN 0
    ELSE ParseNat(SubSeq(s, 1, Len(s) - 1)) * 10 + ValorDigito(s[Len(s)])

RECURSIVE to_string(_)
to_string(n) ==
    IF n < 10 THEN <<DigitosSeq[n + 1]>>
    ELSE to_string(n \div 10) \o <<DigitosSeq[(n % 10) + 1]>>

\* format!("{:02}", n)
Pad2(n) == IF n < 10 THEN <<"0">> \o to_string(n) ELSE to_string(n)

\* str::parse::<u8> and str::parse::<u16> on a run of digits: only ASCII
\* digits are digits to it, and the value has to fit the type.
parse_uint(s, max) ==
    IF s = <<>> \/ \E i \in DOMAIN s : ~is_ascii_digit(s[i])
    THEN [ok |-> FALSE, n |-> 0]
    ELSE IF ParseNat(s) > max THEN [ok |-> FALSE, n |-> 0]
    ELSE [ok |-> TRUE, n |-> ParseNat(s)]

parse_u8(s) == parse_uint(s, 255)

parse_u16(s) == parse_uint(s, 65535)

None == [some |-> FALSE, val |-> <<>>]

\* The outcome of a validator that panics: an unwrap of an Err.
Panico == [some |-> FALSE, val |-> <<>>, panic |-> TRUE]

Panicou(o) == "panic" \in DOMAIN o

Some(v) == [some |-> TRUE, val |-> v]

(***************************************************************************)
(* utils/validacao_entradas.rs                                             *)
(***************************************************************************)
ReDre == <<Ws, It(ClsD, 9, 9, 1), Ws>>

processar_dre(dre) ==
    LET m == Captures(ReDre, dre)
    IN  IF m.ok THEN Some(m.caps[1]) ELSE None

ReData1 == <<Ws, It(ClsD, 1, 2, 1), Ws, Lit("/"), Ws, It(ClsD, 1, 2, 2), Ws,
             Lit("/"), Ws, It(ClsD, 1, 4, 3), Ws>>

ReData2 == <<Ws, It(ClsD, 2, 2, 1), Ws, It(ClsD, 2, 2, 2), Ws,
             It(ClsD, 4, 4, 3), Ws>>

AnoCurto == 1000

Seculo == 2000

processar_data(data) ==
    LET m == CapturesAlt(<<ReData1, ReData2>>, data)
        dia == parse_u8(m.caps[1])
        mes == parse_u8(m.caps[2])
        ano == parse_u16(m.caps[3])
    IN  IF ~m.ok THEN None
        ELSE IF ~dia.ok \/ ~mes.ok \/ ~ano.ok THEN Panico
        ELSE Some(Pad2(dia.n) \o <<"/">> \o Pad2(mes.n) \o <<"/">>
                  \o to_string(IF ano.n < AnoCurto THEN Seculo + ano.n ELSE ano.n))

ReHora == <<Ws, It(ClsD, 1, 2, 1), Ws, Lit(":"), Ws, It(ClsD, 1, 2, 2), Ws>>

processar_hora(hora) ==
    LET m == Captures(ReHora, hora)
        h == parse_u8(m.caps[1])
        min == parse_u8(m.caps[2])
    IN  IF ~m.ok THEN None
        ELSE IF ~h.ok \/ ~min.ok THEN Panico
        ELSE Some(Pad2(h.n) \o <<":">> \o Pad2(min.n))

ReCodigo ==
    <<Ws, It(ClsHex, 4, 4, 1)>>
    \o Concat([g \in 1..7 |-> <<Ws, Lit("."), Ws, It(ClsHex, 4, 4, g + 1)>>])
    \o <<Ws>>

processar_codigo(codigo) ==
    LET m == Captures(ReCodigo, codigo)
    IN  IF m.ok THEN Some(Join([g \in 1..8 |-> m.caps[g]], <<".">>)) ELSE None

ParticulasNome == { <<"d","e">>, <<"d","a">>, <<"d","o">>,
                    <<"d","a","s">>, <<"d","o","s">> }

Capitalizar(x) ==
    IF x \in ParticulasNome THEN x
    ELSE to_uppercase(x[1]) \o SubSeq(x, 2, Len(x))

processar_nome(nome) ==
    IF ~from_str(nome).ok THEN None
    ELSE LET minusculo == [i \in DOMAIN nome |-> to_lowercase(nome[i])]
             palavras == split_whitespace(minusculo)
         IN  Some(Join([i \in DOMAIN palavras |-> Capitalizar(palavras[i])], <<" ">>))

ReTelefoneResto ==
    <<Ws, Opt("("), Opt("0"), It(ClsD, 2, 2, 1), Opt(")"), Ws,
      It({"9"}, 0, 1, 2), It(ClsD, 4, 4, 2), Ws, Opt("-"), Ws,
      It(ClsD, 4, 4, 3), Ws>>

ReTelefone55 == <<Ws, Lit("+"), Lit("5"), Lit("5")>> \o ReTelefoneResto

ReTelefone == <<Ws>> \o ReTelefoneResto

processar_telefone(telefone) ==
    LET m == CapturesAlt(<<ReTelefone55, ReTelefone>>, telefone)
    IN  IF m.ok THEN Some(<<"+", "5", "5">> \o m.caps[1] \o m.caps[2] \o m.caps[3])
        ELSE None

SenhaMin == 8

SenhaMax == 25

validar_senha(senha) ==
    /\ Len(senha) >= SenhaMin
    /\ Len(senha) <= SenhaMax
    /\ \E i \in DOMAIN senha : is_ascii_lowercase(senha[i])
    /\ \E i \in DOMAIN senha : is_ascii_uppercase(senha[i])
    /\ \E i \in DOMAIN senha : is_ascii_digit(senha[i])


\* str::trim: Unicode whitespace removed at both ends.
RECURSIVE TrimStart(_)
TrimStart(s) ==
    IF s # <<>> /\ is_whitespace(Head(s)) THEN TrimStart(Tail(s)) ELSE s

RECURSIVE TrimEnd(_)
TrimEnd(s) ==
    IF s # <<>> /\ is_whitespace(s[Len(s)])
    THEN TrimEnd(SubSeq(s, 1, Len(s) - 1)) ELSE s

Trim(s) == TrimEnd(TrimStart(s))

\* The bytes of the UTF-8 encoding of a character (str::len counts bytes).
utf8_len(c) ==
    IF is_ascii(c) THEN 1 ELSE IF c = "euro" THEN 3 ELSE 2

RECURSIVE str_len(_)
str_len(s) == IF s = <<>> THEN 0 ELSE utf8_len(Head(s)) + str_len(Tail(s))

\* char::is_alphanumeric (Unicode aware): the letters and decimal digits of
\* the model.
EhAlfanumerico(c) ==
    \/ is_ascii_lowercase(c) \/ is_ascii_uppercase(c) \/ is_ascii_digit(c)
    \/ EhAcentuada(c)
    \/ c \in {"eszett", "tres_arabe"}

\* The printable ASCII characters, U+0021 to U+007E.
Visiveis ==
    LetrasMinusculas \cup LetrasMaiusculas \cup Digitos \cup
    {"!", "\"", "#", "$", "%", "&", "'", "(", ")", "*", "+", ",", "-", ".", "/",
     ":", ";", "<", "=", ">", "?", "@", "[", "\\", "]", "^", "_", "crase",
     "{", "|", "}", "~"}

\* The email_address crate's is_atext: an alphanumeric, one of the special
\* characters of RFC 5322, or any non-ASCII character (RFC 6532).
EhAtext(c) ==
    \/ EhAlfanumerico(c)
    \/ c \in {"!", "#", "$", "%", "&", "'", "*", "+", "-", "/", "=", "?", "^",
              "_", "crase", "{", "|", "}", "~"}
    \/ ~is_ascii(c)

\* is_qtext_char or is_wsp: what a quoted local part holds unescaped.
EhQtext(c) ==
    \/ c \in Visiveis \ {"\"", "\\"}
    \/ ~is_ascii(c)
    \/ c \in {" ", "\t"}

\* is_qcontent: qtext, blanks, and pairs of a backslash and a printable
\* character.
RECURSIVE EhQcontent(_)
EhQcontent(s) ==
    IF s = <<>> THEN TRUE
    ELSE IF Head(s) = "\\"
    THEN Len(s) >= 2 /\ s[2] \in Visiveis /\ EhQcontent(Tail(Tail(s)))
    ELSE EhQtext(Head(s)) /\ EhQcontent(Tail(s))

\* is_dtext_char: what a domain literal holds between its brackets.
EhDtext(c) == c \in Visiveis \ {"[", "\\", "]"}

\* The parts of s between the separators sep (str::split).
RECURSIVE SplitSep(_, _, _, _)
SplitSep(s, sep, atual, feitas) ==
    IF s = <<>> THEN Append(feitas, atual)
    ELSE IF Head(s) = sep THEN SplitSep(Tail(s), sep, <<>>, Append(feitas, atual))
    ELSE SplitSep(Tail(s), sep, Append(atual, Head(s)), feitas)

Split(s, sep) == SplitSep(s, sep, <<>>, <<>>)

\* Where the last occurrence of sep in s starts (str::rsplit_once), 0 when
\* there is none.
Ocorrencias(s, sep) ==
    {i \in 1..(Len(s) - Len(sep) + 1) : SubSeq(s, i, i + Len(sep) - 1) = sep}

Maior(S) == IF S = {} THEN 0 ELSE CHOOSE i \in S : \A k \in S : k <= i

UltimaOcorrencia(s, sep) == Maior(Ocorrencias(s, sep))

UltimaArroba(s) == UltimaOcorrencia(s, <<"@">>)

\* is_atom: a non-empty run of atext.
EhAtom(a) == a # <<>> /\ \A j \in DOMAIN a : EhAtext(a[j])

\* is_dot_atom_text: atoms separated by dots.
TodosAtomos(ps) == \A i \in DOMAIN ps : EhAtom(ps[i])

EhDotAtom(l) == TodosAtomos(Split(l, "."))

\* parse_local_part: at most 64 bytes, of a dot-atom or a quoted string.
LocalValido(l) ==
    /\ l # <<>>
    /\ str_len(l) <= 64
    /\ IF l[1] = "\"" /\ l[Len(l)] = "\""
       THEN Len(l) > 2 /\ EhQcontent(SubSeq(l, 2, Len(l) - 1))
       ELSE EhDotAtom(l)

\* parse_text_domain, one label: it starts and ends with an alphanumeric,
\* and is an atom of at most 63 bytes.
RotuloValido(r) ==
    /\ r # <<>>
    /\ EhAlfanumerico(r[1])
    /\ EhAlfanumerico(r[Len(r)])
    /\ str_len(r) <= 63
    /\ EhAtom(r)

TodosRotulos(ps) == \A i \in DOMAIN ps : RotuloValido(ps[i])

\* parse_domain: at most 254 bytes, of a domain literal in brackets or of
\* labels separated by dots.
DominioValido(d) ==
    /\ d # <<>>
    /\ str_len(d) <= 254
    /\ IF d[1] = "[" /\ d[Len(d)] = "]"
       THEN \A j \in 2..(Len(d) - 1) : EhDtext(d[j])
       ELSE TodosRotulos(Split(d, "."))

EmailErro == [ok |-> FALSE, local |-> <<>>, dominio |-> <<>>]

\* parse_address: the local part and the domain are both valid.
EmailPartes(l, d) ==
    IF LocalValido(l) /\ DominioValido(d)
    THEN [ok |-> TRUE, local |-> l, dominio |-> d]
    ELSE EmailErro

\* split_at: the address is cut at its last "@".
EmailCortado(e, a) ==
    IF a = 0 THEN EmailErro
    ELSE EmailPartes(SubSeq(e, 1, a - 1), SubSeq(e, a + 1, Len(e)))

EmailSemNome(e) == EmailCortado(e, UltimaArroba(e))

\* split_display_email: the address of "name <address>", or the text itself
\* when it holds no " <"; an error when the closing ">" is missing.
EmailEntreSinais(direita) ==
    IF direita = <<>> \/ direita[Len(direita)] # ">" THEN EmailErro
    ELSE EmailSemNome(SubSeq(direita, 1, Len(direita) - 1))

EmailComNome(s, a) ==
    IF a = 0 THEN EmailSemNome(s)
    ELSE EmailEntreSinais(Trim(SubSeq(s, a + 2, Len(s))))

\* EmailAddress::from_str, with local_part() and domain() of its result.
EmailParse(s) == EmailComNome(s, UltimaOcorrencia(s, <<" ", "<">>))

MinusculasDe(s) == [i \in DOMAIN s |-> to_lowercase(s[i])]

EmailMontado(e2) ==
    IF e2.ok THEN Some(e2.local \o <<"@">> \o e2.dominio) ELSE None

EmailRefeito(e1) ==
    IF ~e1.ok THEN None
    ELSE EmailMontado(EmailParse(e1.local \o <<"@">> \o MinusculasDe(e1.dominio)))

\* processar_email (lines 307-317): the address is parsed, rebuilt with its
\* domain in lowercase, and parsed again.
processar_email(email) == EmailRefeito(EmailParse(Trim(email)))


(***************************************************************************)
(* utils/hashes.rs.  A byte is a number of 0..255.                         *)
(***************************************************************************)
B64Alfabeto ==
    <<"A","B","C","D","E","F","G","H","I","J","K","L","M",
      "N","O","P","Q","R","S","T","U","V","W","X","Y","Z",
      "a","b","c","d","e","f","g","h","i","j","k","l","m",
      "n","o","p","q","r","s","t","u","v","w","x","y","z",
      "0","1","2","3","4","5","6","7","8","9","+","/">>

EhB64(c) == c \in Range(B64Alfabeto)

B64Valor(c) == IndiceDe(c, B64Alfabeto) - 1

B64Char(v) == B64Alfabeto[v + 1]

\* BASE64_STANDARD.encode: 3 bytes make 4 characters, and a last group of 1
\* or 2 bytes is padded with "=".
RECURSIVE base64_encode(_)
base64_encode(b) ==
    IF b = <<>> THEN <<>>
    ELSE IF Len(b) = 1
    THEN <<B64Char(b[1] \div 4), B64Char((b[1] % 4) * 16), "=", "=">>
    ELSE IF Len(b) = 2
    THEN <<B64Char(b[1] \div 4), B64Char((b[1] % 4) * 16 + b[2] \div 16),
           B64Char((b[2] % 16) * 4), "=">>
    ELSE <<B64Char(b[1] \div 4), B64Char((b[1] % 4) * 16 + b[2] \div 16),
           B64Char((b[2] % 16) * 4 + b[3] \div 64), B64Char(b[3] % 64)>>
         \o base64_encode(SubSeq(b, 4, Len(b)))

B64Erro == [ok |-> FALSE, bytes |-> <<>>]

\* BASE64_STANDARD.decode: groups of 4 characters of the alphabet; padding
\* only at the end of the last group, whose unused bits have to be zero.
RECURSIVE base64_decode(_)
base64_decode(s) ==
    IF s = <<>> THEN [ok |-> TRUE, bytes |-> <<>>]
    ELSE IF Len(s) < 4 THEN B64Erro
    ELSE LET g == SubSeq(s, 1, 4)
             ultimo == Len(s) = 4
         IN  IF ~EhB64(g[1]) \/ ~EhB64(g[2]) THEN B64Erro
             ELSE IF ultimo /\ g[3] = "=" /\ g[4] = "="
             THEN IF B64Valor(g[2]) % 16 # 0 THEN B64Erro
                  ELSE [ok |-> TRUE,
                        bytes |-> <<B64Valor(g[1]) * 4 + B64Valor(g[2]) \div 16>>]
             ELSE IF ~EhB64(g[3]) THEN B64Erro
             ELSE IF ultimo /\ g[4] = "="
             THEN IF B64Valor(g[3]) % 4 # 0 THEN B64Erro
                  ELSE [ok |-> TRUE,
                        bytes |-> <<B64Valor(g[1]) * 4 + B64Valor(g[2]) \div 16,
                                    (B64Valor(g[2]) % 16) * 16 + B64Valor(g[3]) \div 4>>]
             ELSE IF ~EhB64(g[4]) THEN B64Erro
             ELSE LET resto == base64_decode(SubSeq(s, 5, Len(s)))
                  IN  IF ~resto.ok THEN B64Erro
                      ELSE [ok |-> TRUE,
                            bytes |-> <<B64Valor(g[1]) * 4 + B64Valor(g[2]) \div 16,
                                        (B64Valor(g[2]) % 16) * 16 + B64Valor(g[3]) \div 4,
                                        (B64Valor(g[3]) % 4) * 64 + B64Valor(g[4])>>
                                      \o resto.bytes]

\* The SHA-1 digests of passwd followed by salt (lines 61-64), for the
\* passwords and the salts of the model.
Sha1Tabela ==
    { [passwd |-> <<"1","2","3","4","5","6","7","8">>, salt |-> <<0,0,0,0>>,
       digest |-> <<101,27,82,38,157,82,104,43,29,202,63,20,225,181,107,90,124,247,187,165>>],
      [passwd |-> <<"1","2","3","4","5","6","7","8">>, salt |-> <<0,0,0,1>>,
       digest |-> <<118,205,99,99,163,37,208,44,225,193,154,104,90,130,209,58,39,226,211,184>>],
      [passwd |-> <<"1","2","3","4","5","6","7","8">>, salt |-> <<0,0,16,0>>,
       digest |-> <<213,144,121,180,170,245,120,87,240,121,71,108,126,151,134,140,134,145,213,192>>],
      [passwd |-> <<"1","2","3","4","5","6","7","8">>, salt |-> <<0,2,3,4>>,
       digest |-> <<174,176,243,31,159,26,126,26,240,225,82,132,187,15,127,148,116,120,234,95>>],
      [passwd |-> <<"1","2","3","4","5","6","7","8">>, salt |-> <<1,0,0,0>>,
       digest |-> <<246,40,196,16,218,147,222,198,128,109,175,90,69,46,102,204,36,168,229,124>>],
      [passwd |-> <<"1","2","3","4","5","6","7","8">>, salt |-> <<1,0,3,4>>,
       digest |-> <<58,220,76,29,6,105,124,16,25,46,164,67,119,31,194,43,190,136,191,126>>],
      [passwd |-> <<"1","2","3","4","5","6","7","8">>, salt |-> <<1,0,19,4>>,
       digest |-> <<71,2,123,145,50,239,249,28,54,233,21,67,59,83,116,21,231,206,79,231>>],
      [passwd |-> <<"1","2","3","4","5","6","7","8">>, salt |-> <<1,2,3,0>>,
       digest |-> <<53,151,167,208,26,120,147,50,158,139,148,65,239,173,28,202,14,183,76,20>>],
      [passwd |-> <<"1","2","3","4","5","6","7","8">>, salt |-> <<1,2,3,1>>,
       digest |-> <<112,138,180,220,122,235,4,114,146,44,132,113,252,42,128,159,175,12,148,53>>],
      [passwd |-> <<"1","2","3","4","5","6","7","8">>, salt |-> <<1,2,3,4>>,
       digest |-> <<26,51,151,28,163,220,49,91,194,220,0,53,107,237,118,137,65,225,5,165>>],
      [passwd |-> <<"1","2","3","4","5","6","7","8">>, salt |-> <<192,128,7,200>>,
       digest |-> <<217,8,212,234,209,220,227,19,245,105,25,63,250,212,243,145,45,245,220,94>>],
      [passwd |-> <<"1","2","3","4","5","6","7","8">>, salt |-> <<193,128,7,200>>,
       digest |-> <<102,116,187,117,35,16,168,70,227,117,91,236,118,250,18,41,59,165,53,5>>],
      [passwd |-> <<"1","2","3","4","5","6","7","8">>, salt |-> <<255,128,7,192>>,
       digest |-> <<162,245,89,122,84,164,155,255,149,182,229,38,58,83,65,62,4,216,120,71>>],
      [passwd |-> <<"1","2","3","4","5","6","7","8">>, salt |-> <<255,128,7,193>>,
       digest |-> <<240,92,147,60,117,84,219,63,234,250,159,111,10,36,234,55,12,231,54,181>>],
      [passwd |-> <<"1","2","3","4","5","6","7","8">>, salt |-> <<255,128,7,200>>,
       digest |-> <<70,244,222,145,29,24,27,67,165,77,242,222,157,66,223,212,147,219,240,15>>],
      [passwd |-> <<"1","2","3","4","5","6","7","8">>, salt |-> <<255,128,23,200>>,
       digest |-> <<76,225,178,189,146,157,38,192,170,175,184,20,161,87,141,219,33,151,229,227>>],
      [passwd |-> <<"1","2","3","4","5","6","7","9">>, salt |-> <<0,0,0,0>>,
       digest |-> <<69,117,3,122,22,125,51,150,8,37,232,95,49,237,134,36,235,196,22,201>>],
      [passwd |-> <<"1","2","3","4","5","6","7","9">>, salt |-> <<0,0,0,1>>,
       digest |-> <<209,23,225,49,192,166,53,170,102,191,8,240,43,52,195,113,94,210,224,22>>],
      [passwd |-> <<"1","2","3","4","5","6","7","9">>, salt |-> <<0,0,16,0>>,
       digest |-> <<21,52,165,189,115,234,82,201,120,133,148,64,141,144,173,167,106,155,127,94>>],
      [passwd |-> <<"1","2","3","4","5","6","7","9">>, salt |-> <<0,2,3,4>>,
       digest |-> <<249,156,15,26,236,221,238,207,196,150,48,5,237,247,189,221,221,19,40,160>>],
      [passwd |-> <<"1","2","3","4","5","6","7","9">>, salt |-> <<1,0,0,0>>,
       digest |-> <<171,93,148,175,172,135,14,199,134,208,150,68,248,157,52,65,88,204,113,103>>],
      [passwd |-> <<"1","2","3","4","5","6","7","9">>, salt |-> <<1,0,3,4>>,
       digest |-> <<123,144,209,200,183,76,159,205,24,169,133,248,55,115,23,83,117,141,205,190>>],
      [passwd |-> <<"1","2","3","4","5","6","7","9">>, salt |-> <<1,0,19,4>>,
       digest |-> <<111,167,236,92,119,203,85,217,251,147,30,56,73,235,125,82,2,20,197,237>>],
      [passwd |-> <<"1","2","3","4","5","6","7","9">>, salt |-> <<1,2,3,0>>,
       digest |-> <<98,33,201,128,160,126,105,153,102,38,75,92,202,219,90,131,160,181,185,211>>],
      [passwd |-> <<"1","2","3","4","5","6","7","9">>, salt |-> <<1,2,3,1>>,
       digest |-> <<135,98,195,239,84,43,199,14,89,54,68,246,227,180,59,146,100,243,34,169>>],
      [passwd |-> <<"1","2","3","4","5","6","7","9">>, salt |-> <<1,2,3,4>>,
       digest |-> <<104,142,8,239,67,179,58,58,173,64,165,138,131,52,253,252,81,198,152,255>>],
      [passwd |-> <<"1","2","3","4","5","6","7","9">>, salt |-> <<192,128,7,200>>,
       digest |-> <<80,79,51,54,55,35,87,249,101,62,82,87,54,188,133,11,15,0,26,88>>],
      [passwd |-> <<"1","2","3","4","5","6","7","9">>, salt |-> <<193,128,7,200>>,
       digest |-> <<100,70,192,35,35,170,122,237,173,205,249,222,168,194,74,196,230,0,255,28>>],
      [passwd |-> <<"1","2","3","4","5","6","7","9">>, salt |-> <<255,128,7,192>>,
       digest |-> <<185,102,127,98,175,21,252,41,236,108,100,22,213,201,209,242,19,76,95,95>>],
      [passwd |-> <<"1","2","3","4","5","6","7","9">>, salt |-> <<255,128,7,193>>,
       digest |-> <<77,108,219,20,230,255,173,144,210,88,131,233,129,255,146,215,107,192,162,71>>],
      [passwd |-> <<"1","2","3","4","5","6","7","9">>, salt |-> <<255,128,7,200>>,
       digest |-> <<172,168,54,39,188,95,121,59,58,197,1,73,33,243,93,117,150,234,168,184>>],
      [passwd |-> <<"1","2","3","4","5","6","7","9">>, salt |-> <<255,128,23,200>>,
       digest |-> <<242,97,223,170,241,41,155,242,178,104,29,96,245,218,228,185,227,57,174,151>>],
      [passwd |-> <<"S","e","n","h","a","1","2","3">>, salt |-> <<0,0,0,0>>,
       digest |-> <<93,109,16,132,103,79,246,162,177,202,122,91,53,156,245,186,168,3,223,118>>],
      [passwd |-> <<"S","e","n","h","a","1","2","3">>, salt |-> <<0,0,0,1>>,
       digest |-> <<255,138,23,120,47,222,154,108,89,204,4,97,114,83,250,250,18,0,252,245>>],
      [passwd |-> <<"S","e","n","h","a","1","2","3">>, salt |-> <<0,0,16,0>>,
       digest |-> <<100,242,185,189,75,87,34,50,69,66,167,193,135,105,38,206,202,111,232,118>>],
      [passwd |-> <<"S","e","n","h","a","1","2","3">>, salt |-> <<0,2,3,4>>,
       digest |-> <<37,129,117,202,130,133,63,4,111,0,124,184,71,189,206,81,25,96,202,54>>],
      [passwd |-> <<"S","e","n","h","a","1","2","3">>, salt |-> <<1,0,0,0>>,
       digest |-> <<105,15,144,250,15,54,211,65,20,99,245,12,52,179,25,109,102,103,229,144>>],
      [passwd |-> <<"S","e","n","h","a","1","2","3">>, salt |-> <<1,0,3,4>>,
       digest |-> <<225,80,3,91,255,9,45,222,3,174,40,164,155,120,122,133,25,188,200,139>>],
      [passwd |-> <<"S","e","n","h","a","1","2","3">>, salt |-> <<1,0,19,4>>,
       digest |-> <<162,244,85,43,9,73,147,184,43,174,146,86,127,227,88,65,135,226,252,244>>],
      [passwd |-> <<"S","e","n","h","a","1","2","3">>, salt |-> <<1,2,3,0>>,
       digest |-> <<254,145,81,87,237,79,154,144,60,221,87,252,139,116,17,10,75,210,226,135>>],
      [passwd |-> <<"S","e","n","h","a","1","2","3">>, salt |-> <<1,2,3,1>>,
       digest |-> <<2,132,133,48,147,252,255,38,214,250,12,185,11,123,41,202,193,9,230,83>>],
      [passwd |-> <<"S","e","n","h","a","1","2","3">>, salt |-> <<1,2,3,4>>,
       digest |-> <<37,250,239,147,13,246,69,27,9,195,222,143,247,246,15,197,174,111,124,62>>],
      [passwd |-> <<"S","e","n","h","a","1","2","3">>, salt |-> <<192,128,7,200>>,
       digest |-> <<76,79,212,24,58,47,167,79,77,187,198,79,164,211,147,79,202,178,146,235>>],
      [passwd |-> <<"S","e","n","h","a","1","2","3">>, salt |-> <<193,128,7,200>>,
       digest |-> <<78,132,186,132,91,28,209,134,65,46,190,80,135,215,42,127,139,76,211,141>>],
      [passwd |-> <<"S","e","n","h","a","1","2","3">>, salt |-> <<255,128,7,192>>,
       digest |-> <<239,41,213,145,159,38,188,20,175,247,183,106,67,8,216,184,126,177,27,57>>],
      [passwd |-> <<"S","e","n","h","a","1","2","3">>, salt |-> <<255,128,7,193>>,
       digest |-> <<221,221,232,158,41,186,161,246,229,45,98,108,232,132,144,230,95,28,156,198>>],
      [passwd |-> <<"S","e","n","h","a","1","2","3">>, salt |-> <<255,128,7,200>>,
       digest |-> <<99,84,179,126,186,26,104,68,205,232,56,146,255,227,160,60,71,62,48,25>>],
      [passwd |-> <<"S","e","n","h","a","1","2","3">>, salt |-> <<255,128,23,200>>,
       digest |-> <<251,61,198,146,188,59,23,182,231,27,163,108,157,131,145,100,25,45,36,218>>] }

sha1_passwd_salt(passwd, salt) ==
    (CHOOSE t \in Sha1Tabela : t.passwd = passwd /\ t.salt = salt).digest

PrefixoSsha == <<"{","S","S","H","A","}">>

TamanhoDigest == 20

TamanhoSal == 4

\* hash_ssha_with_salt, lines 60-74.
hash_ssha_with_salt(passwd, salt) ==
    PrefixoSsha \o base64_encode(sha1_passwd_salt(passwd, salt) \o salt)

\* str::strip_prefix
strip_prefix(s, prefixo) ==
    IF Len(s) >= Len(prefixo) /\ SubSeq(s, 1, Len(prefixo)) = prefixo
    THEN Some(SubSeq(s, Len(prefixo) + 1, Len(s)))
    ELSE None

\* A comparison that is content with a stored hash of the right form.
compare_ssha_so_forma(passwd, hash) ==
    LET sem_prefixo == strip_prefix(hash, PrefixoSsha)
        hash_unbased == base64_decode(sem_prefixo.val)
    IN  IF ~sem_prefixo.some \/ ~hash_unbased.ok THEN "panic"
        ELSE IF Len(hash_unbased.bytes) # TamanhoDigest + TamanhoSal THEN "panic"
        ELSE "true"

\* compare_ssha: "true" or "false", or "panic" where an unwrap or split_at
\* panics: a hash without the prefix, one that is not base64, or one that
\* does not decode to 20 + 4 bytes.
compare_ssha(passwd, hash) ==
    LET sem_prefixo == strip_prefix(hash, PrefixoSsha)
        hash_unbased == base64_decode(sem_prefixo.val)
        salt == SubSeq(hash_unbased.bytes, TamanhoDigest + 1, Len(hash_unbased.bytes))
    IN  IF ~sem_prefixo.some THEN "panic"
        ELSE IF ~hash_unbased.ok THEN "panic"
        ELSE IF Len(hash_unbased.bytes) < TamanhoDigest THEN "panic"
        ELSE IF Len(salt) # TamanhoSal THEN "panic"
        ELSE IF hash_ssha_with_salt(passwd, salt) = hash THEN "true"
        ELSE "false"


(***************************************************************************)
(* Results.  Every Result of the program is a record of one shape:        *)
(* tag (the variant), sub (the variant of a wrapped error), arg and arg2  *)
(* (the strings the variant carries).                                      *)
(***************************************************************************)
R(tag, sub, arg, arg2) == [tag |-> tag, sub |-> sub, arg |-> arg, arg2 |-> arg2]

Pendente == R("Pendente", "-", <<>>, <<>>)

\* ErroLdap::ErroLdap(LdapError), ErroLdap::FalhaUid, ...
ErroLdap(sub) == R("ErroLdap", sub, <<>>, <<>>)

\* ConsultaErro::ErroReqwest, ...
ConsultaErro(sub) == R("ConsultaErro", sub, <<>>, <<>>)

(***************************************************************************)
(* portal_ufrj.rs                                                          *)
(***************************************************************************)
CursoAlvo ==
    <<"C","i","e_circ","n","c","i","a"," ","d","a"," ",
      "C","o","m","p","u","t","a","c_cedilha","a_til","o">>

NumItens == 3

\* A classification that asks for at least NumItens fields and compares the
\* program without regard to case.
consulta_classificar_frouxa(pagina) ==
    IF pagina.valido = pagina.invalido THEN ConsultaErro("CombinacaoInvalida")
    ELSE IF pagina.invalido THEN R("Desconhecido", "-", <<>>, <<>>)
    ELSE IF Len(pagina.itens) < NumItens THEN ConsultaErro("NumeroEstranhoDeItens")
    ELSE IF [i \in DOMAIN pagina.itens[3] |-> to_lowercase(pagina.itens[3][i])]
            = [i \in DOMAIN CursoAlvo |-> to_lowercase(CursoAlvo[i])]
         THEN R("AlunoDoCurso", "-", pagina.itens[1], <<>>)
         ELSE R("AlunoOutroCurso", "-", pagina.itens[1], pagina.itens[3])

\* consulta, from the response of the POST on: the page is the pair of
\* markers msgDocumentoValido / msgDocumentoInvalido and the texts of the
\* gnosys-item-visualizacao elements.
consulta_classificar(pagina) ==
    IF pagina.valido = pagina.invalido THEN ConsultaErro("CombinacaoInvalida")
    ELSE IF pagina.invalido THEN R("Desconhecido", "-", <<>>, <<>>)
    ELSE IF Len(pagina.itens) # NumItens THEN ConsultaErro("NumeroEstranhoDeItens")
    ELSE IF pagina.itens[3] = CursoAlvo
         THEN R("AlunoDoCurso", "-", pagina.itens[1], <<>>)
         ELSE R("AlunoOutroCurso", "-", pagina.itens[1], pagina.itens[3])

(***************************************************************************)
(* cadastro_aluno.rs: the synchronous parts of cadastrar                   *)
(***************************************************************************)
\* Lines 154-159: the three validators cadastrar runs before the join.  A
\* validator that panics ends the call there: the outcome "Panico".
validar_documento(d) ==
    LET data == processar_data(d.data)
        hora == processar_hora(d.hora)
        codigo == processar_codigo(d.codigo)
    IN  IF Panicou(data)
        THEN [ok |-> FALSE, erro |-> R("Panico", "-", d.data, <<>>), dados |-> d]
        ELSE IF ~data.some
        THEN [ok |-> FALSE, erro |-> R("DataInvalida", "-", d.data, <<>>), dados |-> d]
        ELSE IF Panicou(hora)
        THEN [ok |-> FALSE, erro |-> R("Panico", "-", d.hora, <<>>),
              dados |-> [d EXCEPT !.data = data.val]]
        ELSE IF ~hora.some
        THEN [ok |-> FALSE, erro |-> R("HoraInvalida", "-", d.hora, <<>>),
              dados |-> [d EXCEPT !.data = data.val]]
        ELSE IF ~codigo.some
        THEN [ok |-> FALSE, erro |-> R("CodigoInvalido", "-", d.codigo, <<>>),
              dados |-> [d EXCEPT !.data = data.val, !.hora = hora.val]]
        ELSE [ok |-> TRUE, erro |-> Pendente,
              dados |-> [d EXCEPT !.data = data.val, !.hora = hora.val,
                                  !.codigo = codigo.val]]

\* A cadastrar_sem_verificar_documento that checks the five fields and hands
\* the request on as it came.
validar_cadastro_cru(d) ==
    IF ~processar_dre(d.dre).some
    THEN [ok |-> FALSE, erro |-> R("DREInvalido", "-", d.dre, <<>>), dados |-> d]
    ELSE IF ~processar_nome(d.nome).some
    THEN [ok |-> FALSE, erro |-> R("NomeInvalido", "-", d.nome, <<>>), dados |-> d]
    ELSE IF ~processar_email(d.email).some
    THEN [ok |-> FALSE, erro |-> R("EmailInvalido", "-", d.email, <<>>), dados |-> d]
    ELSE IF ~processar_telefone(d.telefone).some
    THEN [ok |-> FALSE, erro |-> R("TelefoneInvalido", "-", d.telefone, <<>>), dados |-> d]
    ELSE IF ~validar_senha(d.senha)
    THEN [ok |-> FALSE, erro |-> R("SenhaInvalida", "-", <<>>, <<>>), dados |-> d]
    ELSE [ok |-> TRUE, erro |-> Pendente, dados |-> d]

\* Lines 120-132: the validators of cadastrar_sem_verificar_documento.
validar_cadastro(d) ==
    LET dre == processar_dre(d.dre)
        nome == processar_nome(d.nome)
        email == processar_email(d.email)
        telefone == processar_telefone(d.telefone)
    IN  IF ~dre.some
        THEN [ok |-> FALSE, erro |-> R("DREInvalido", "-", d.dre, <<>>), dados |-> d]
        ELSE IF ~nome.some
        THEN [ok |-> FALSE, erro |-> R("NomeInvalido", "-", d.nome, <<>>),
              dados |-> [d EXCEPT !.dre = dre.val]]
        ELSE IF ~email.some
        THEN [ok |-> FALSE, erro |-> R("EmailInvalido", "-", d.email, <<>>),
              dados |-> [d EXCEPT !.dre = dre.val, !.nome = nome.val]]
        ELSE IF ~telefone.some
        THEN [ok |-> FALSE, erro |-> R("TelefoneInvalido", "-", d.telefone, <<>>),
              dados |-> [d EXCEPT !.dre = dre.val, !.nome = nome.val,
                                  !.email = email.val]]
        ELSE IF ~validar_senha(d.senha)
        THEN [ok |-> FALSE, erro |-> R("SenhaInvalida", "-", <<>>, <<>>),
              dados |-> [d EXCEPT !.dre = dre.val, !.nome = nome.val,
                                  !.email = email.val, !.telefone = telefone.val]]
        ELSE [ok |-> TRUE, erro |-> Pendente,
              dados |-> [d EXCEPT !.dre = dre.val, !.nome = nome.val,
                                  !.email = email.val, !.telefone = telefone.val]]

\* A reconciliation that leaves out the comparison of the two names.
reconciliar_sem_nome(consulta_ldap, consulta_siga, nome) ==
    IF consulta_ldap.tag = "ErroLdap"
    THEN R("ErroNoCadastro", consulta_ldap.sub, consulta_ldap.arg, <<>>)
    ELSE IF consulta_ldap.tag = "CadastroRedundante"
    THEN R("CadastroRedundante", "-", consulta_ldap.arg, <<>>)
    ELSE IF consulta_siga.tag = "ConsultaErro"
    THEN R("ErroNaConsulta", consulta_siga.sub, <<>>, <<>>)
    ELSE IF consulta_siga.tag = "AlunoOutroCurso"
    THEN R("AlunoOutroCurso", "-", consulta_siga.arg2, <<>>)
    ELSE IF consulta_siga.tag = "Desconhecido"
    THEN R("DocumentoInvalido", "-", <<>>, <<>>)
    ELSE R("Prosseguir", "-", consulta_ldap.arg, <<>>)

\* A reconciliation that looks at the portal's answer before the probe's.
reconciliar_siga_primeiro(consulta_ldap, consulta_siga, nome) ==
    IF consulta_siga.tag = "ConsultaErro"
    THEN R("ErroNaConsulta", consulta_siga.sub, <<>>, <<>>)
    ELSE IF consulta_siga.tag = "AlunoOutroCurso"
    THEN R("AlunoOutroCurso", "-", consulta_siga.arg2, <<>>)
    ELSE IF consulta_siga.tag = "Desconhecido"
    THEN R("DocumentoInvalido", "-", <<>>, <<>>)
    ELSE IF consulta_ldap.tag = "ErroLdap"
    THEN R("ErroNoCadastro", consulta_ldap.sub, consulta_ldap.arg, <<>>)
    ELSE IF consulta_ldap.tag = "CadastroRedundante"
    THEN R("CadastroRedundante", "-", consulta_ldap.arg, <<>>)
    ELSE IF from_str(nome) # from_str(consulta_siga.arg)
    THEN R("NomesDiferentes", "-", nome, consulta_siga.arg)
    ELSE R("Prosseguir", "-", consulta_ldap.arg, <<>>)

\* A reconciliation that compares the two names as they were written.
reconciliar_nome_cru(consulta_ldap, consulta_siga, nome) ==
    IF consulta_ldap.tag = "ErroLdap"
    THEN R("ErroNoCadastro", consulta_ldap.sub, consulta_ldap.arg, <<>>)
    ELSE IF consulta_ldap.tag = "CadastroRedundante"
    THEN R("CadastroRedundante", "-", consulta_ldap.arg, <<>>)
    ELSE IF consulta_siga.tag = "ConsultaErro"
    THEN R("ErroNaConsulta", consulta_siga.sub, <<>>, <<>>)
    ELSE IF consulta_siga.tag = "AlunoOutroCurso"
    THEN R("AlunoOutroCurso", "-", consulta_siga.arg2, <<>>)
    ELSE IF consulta_siga.tag = "Desconhecido"
    THEN R("DocumentoInvalido", "-", <<>>, <<>>)
    ELSE IF nome # consulta_siga.arg
    THEN R("NomesDiferentes", "-", nome, consulta_siga.arg)
    ELSE R("Prosseguir", "-", consulta_ldap.arg, <<>>)

\* A reconciliation that reports the student's name where the program's
\* name belongs.
reconciliar_curso_trocado(consulta_ldap, consulta_siga, nome) ==
    IF consulta_ldap.tag = "ErroLdap"
    THEN R("ErroNoCadastro", consulta_ldap.sub, consulta_ldap.arg, <<>>)
    ELSE IF consulta_ldap.tag = "CadastroRedundante"
    THEN R("CadastroRedundante", "-", consulta_ldap.arg, <<>>)
    ELSE IF consulta_siga.tag = "ConsultaErro"
    THEN R("ErroNaConsulta", consulta_siga.sub, <<>>, <<>>)
    ELSE IF consulta_siga.tag = "AlunoOutroCurso"
    THEN R("AlunoOutroCurso", "-", consulta_siga.arg, <<>>)
    ELSE IF consulta_siga.tag = "Desconhecido"
    THEN R("DocumentoInvalido", "-", <<>>, <<>>)
    ELSE IF from_str(nome) # from_str(consulta_siga.arg)
    THEN R("NomesDiferentes", "-", nome, consulta_siga.arg)
    ELSE R("Prosseguir", "-", consulta_ldap.arg, <<>>)

\* Lines 173-194: what cadastrar makes of the two joined results.  The
\* outcome "Prosseguir" carries the username of CadastroDisponivel on to
\* cadastrar_sem_verificar_documento.
reconciliar(consulta_ldap, consulta_siga, nome) ==
    IF consulta_ldap.tag = "ErroLdap"
    THEN R("ErroNoCadastro", consulta_ldap.sub, consulta_ldap.arg, <<>>)
    ELSE IF consulta_ldap.tag = "CadastroRedundante"
    THEN R("CadastroRedundante", "-", consulta_ldap.arg, <<>>)
    ELSE IF consulta_siga.tag = "ConsultaErro"
    THEN R("ErroNaConsulta", consulta_siga.sub, <<>>, <<>>)
    ELSE IF consulta_siga.tag = "AlunoOutroCurso"
    THEN R("AlunoOutroCurso", "-", consulta_siga.arg2, <<>>)
    ELSE IF consulta_siga.tag = "Desconhecido"
    THEN R("DocumentoInvalido", "-", <<>>, <<>>)
    ELSE IF from_str(nome) # from_str(consulta_siga.arg)
    THEN R("NomesDiferentes", "-", nome, consulta_siga.arg)
    ELSE R("Prosseguir", "-", consulta_ldap.arg, <<>>)


\* ErroDeCadastro::status (lines 87-109), and the 200 of api.rs for Ok.
status(r) ==
    IF r.tag \in {"DREInvalido", "DataInvalida", "HoraInvalida", "CodigoInvalido",
                  "NomeInvalido", "EmailInvalido", "TelefoneInvalido",
                  "SenhaInvalida", "NomesDiferentes"}
    THEN 422
    ELSE IF r.tag \in {"AlunoOutroCurso", "DocumentoInvalido"} THEN 403
    ELSE IF r.tag \in {"ErroNaConsulta", "ErroNoCadastro"} THEN 500
    ELSE IF r.tag = "CadastroRedundante" THEN 409
    ELSE 200

\* The Display of ErroDeCadastro (lines 50-84): the text of a variant with
\* the fields it interpolates.  ErroNaConsulta and ErroNoCadastro show
\* nothing of the error they wrap.
mensagem(r) ==
    IF r.tag \in {"ErroNaConsulta", "ErroNoCadastro"}
    THEN [variante |-> r.tag, campos |-> <<>>]
    ELSE [variante |-> r.tag, campos |-> <<r.arg, r.arg2>>]

\* api.rs, lines 32-49: the status and the message of the response.
resposta(r) == [status |-> status(r), message |-> mensagem(r)]

(***************************************************************************)
(* The directory                                                           *)
(***************************************************************************)
\* An i64 is held as its sign and the decimal digits of its magnitude,
\* without leading zeros: the values of the type do not fit the integers
\* TLC computes with.  I64Max is 2^63 - 1, I64MinMag is 2^63.
I64Max ==
    <<"9","2","2","3","3","7","2","0","3","6","8","5","4","7","7","5","8","0","7">>

I64MinMag ==
    <<"9","2","2","3","3","7","2","0","3","6","8","5","4","7","7","5","8","0","8">>

I64(neg, mag) == [neg |-> neg, mag |-> mag]

RECURSIVE SemZeros(_)
SemZeros(s) == IF Len(s) > 1 /\ Head(s) = "0" THEN SemZeros(Tail(s)) ELSE s

\* a <= b, for two runs of digits without leading zeros.
RECURSIVE DigitosMenorIgual(_, _)
DigitosMenorIgual(a, b) ==
    IF Len(a) # Len(b) THEN Len(a) < Len(b)
    ELSE IF a = <<>> THEN TRUE
    ELSE IF Head(a) # Head(b) THEN ValorDigito(Head(a)) < ValorDigito(Head(b))
    ELSE DigitosMenorIgual(Tail(a), Tail(b))

\* The digits of m + 1.
RECURSIVE DigitosMaisUm(_)
DigitosMaisUm(m) ==
    IF m = <<>> THEN <<"1">>
    ELSE LET inicio == SubSeq(m, 1, Len(m) - 1)
             ultimo == m[Len(m)]
         IN  IF ultimo = "9" THEN DigitosMaisUm(inicio) \o <<"0">>
             ELSE inicio \o <<DigitosSeq[ValorDigito(ultimo) + 2]>>

\* The digits of m - 1, for m above zero.
RECURSIVE DigitosMenosUmCru(_)
DigitosMenosUmCru(m) ==
    LET inicio == SubSeq(m, 1, Len(m) - 1)
        ultimo == m[Len(m)]
    IN  IF ultimo = "0" THEN DigitosMenosUmCru(inicio) \o <<"9">>
        ELSE inicio \o <<DigitosSeq[ValorDigito(ultimo)]>>

DigitosMenosUm(m) == SemZeros(DigitosMenosUmCru(m))

\* str::parse::<i64>: an optional sign and at least one ASCII digit, of a
\* value from -2^63 to 2^63 - 1.
parse_i64(s) ==
    LET sinal == s # <<>> /\ s[1] \in {"+", "-"}
        corpo == IF sinal THEN Tail(s) ELSE s
        neg == sinal /\ s[1] = "-"
        mag == SemZeros(corpo)
    IN  IF corpo = <<>> \/ \E i \in DOMAIN corpo : ~is_ascii_digit(corpo[i])
        THEN [ok |-> FALSE, v |-> I64(FALSE, <<"0">>)]
        ELSE IF ~DigitosMenorIgual(mag, IF neg THEN I64MinMag ELSE I64Max)
        THEN [ok |-> FALSE, v |-> I64(FALSE, <<"0">>)]
        ELSE [ok |-> TRUE, v |-> I64(neg /\ mag # <<"0">>, mag)]

\* i64::to_string of a value held by its digits.
i64_texto(v) == IF v.neg THEN <<"-">> \o v.mag ELSE v.mag

\* The integer after v.
Sucessor(v) ==
    IF ~v.neg THEN I64(FALSE, DigitosMaisUm(v.mag))
    ELSE LET m == DigitosMenosUm(v.mag)
         IN  I64(m # <<"0">>, m)

\* v + 1 in i64 (cadastrar.rs, lines 180-185).  At i64::MAX the addition
\* overflows: a build with overflow checks panics, one without them wraps
\* to i64::MIN.
i64_soma_um(v) ==
    IF ~v.neg /\ v.mag = I64Max
    THEN { [panico |-> TRUE, v |-> v],
           [panico |-> FALSE, v |-> I64(TRUE, I64MinMag)] }
    ELSE { [panico |-> FALSE, v |-> Sucessor(v)] }

\* The value of an i64 that fits the integers TLC computes with.
i64_valor(v) == IF v.neg THEN 0 - ParseNat(v.mag) ELSE ParseNat(v.mag)

\* i64::to_string of a value held as an integer of the model.
i64_to_string(n) == IF n < 0 THEN <<"-">> \o to_string(0 - n) ELSE to_string(n)

\* An entry of the directory, with the attributes the program reads or
\* writes.  ou and rdn make its DN; an absent attribute is None.
Conta(ou, rdn, uid, dre) ==
    [ou |-> ou, rdn |-> rdn, uid |-> uid, dre |-> dre, dccDRE |-> None,
     uidNumber |-> <<>>, sambaSID |-> <<>>,
     homeDirectory |-> <<>>, mail |-> <<>>, gecos |-> <<>>, cn |-> <<>>, sn |-> <<>>,
     emailExterno |-> <<>>, telephoneNumber |-> <<>>,
     sambaPwdLastSet |-> <<>>, sambaKickoffTime |-> <<>>, sambaPwdMustChange |-> <<>>,
     shadowLastChange |-> <<>>, shadowMax |-> <<>>,
     dataCriacao |-> <<>>, dataRenovacao |-> <<>>, criador |-> 0]

\* The seconds of an hour in place of those of a day.
SegundosPorHora == 60 * 60

\* cadastrar_usuario, lines 40-54: the four times of the new entry, from
\* the Unix time agora (not before 1970) that Utc::now().timestamp() gave.
SegundosPorDia == 24 * 60 * 60

\* An offset of 3600 thousand seconds.
OffsetKickoffMilhar == 3600 * 1000

OffsetKickoff == 3600 * 24 * 60 * 60

DiasDeRenovacao == 3600

tempos(agora) ==
    [samba_today |-> i64_to_string(agora),
     samba_kickoff |-> i64_to_string(agora + OffsetKickoff),
     shadow_today |-> i64_to_string(agora \div SegundosPorDia),
     shadow_renovacao |-> i64_to_string(agora \div SegundosPorDia + DiasDeRenovacao)]

\* ConfiguracaoUsuario::samba_sid_prefix
SambaSidPrefix == <<"S", "-", "1", "-">>

\* deunicode::deunicode on one character: an ASCII character is kept, a
\* letter with a diacritic gives its base letter, U+00DF gives "ss", U+20AC
\* gives "EUR", U+00A0 a space, U+0663 the digit 3, and a character with
\* no transliteration gives "[?]".
deunicode_char(c) ==
    IF is_ascii(c) THEN <<c>>
    ELSE IF EhAcentuada(c) THEN <<Acento(c)[2]>>
    ELSE IF c = "eszett" THEN <<"s", "s">>
    ELSE IF c = "euro" THEN <<"E", "U", "R">>
    ELSE IF c = "nbsp" THEN <<" ">>
    ELSE IF c = "tres_arabe" THEN <<"3">>
    ELSE <<"[", "?", "]">>

\* deunicode(&dados.nome): the ASCII transliteration of a string.
deunicode(s) == Concat([i \in DOMAIN s |-> deunicode_char(s[i])])

\* "@dcc.ufrj.br", the domain of the mail attribute.
DominioDoMail == <<"@", "d", "c", "c", ".", "u", "f", "r", "j", ".", "b", "r">>

\* "/usuarios/alunos/", the parent of the homeDirectory attribute.
RaizDosAlunos ==
    <<"/", "u", "s", "u", "a", "r", "i", "o", "s", "/", "a", "l", "u", "n", "o", "s", "/">>

\* An add that names the entry after the identifier, not the username.
NovaContaUidDre(username, d, samba_uid, samba_rid, agora, p) ==
    LET palavras == split_whitespace(d.nome)
        t == tempos(agora)
    IN  [ou |-> "alunos", rdn |-> d.dre, uid |-> Some(d.dre), dre |-> None,
         dccDRE |-> Some(d.dre),
         uidNumber |-> samba_uid,
         sambaSID |-> SambaSidPrefix \o samba_rid,
         homeDirectory |-> RaizDosAlunos \o d.dre,
         mail |-> d.dre \o DominioDoMail,
         gecos |-> deunicode(d.nome),
         cn |-> palavras[1],
         sn |-> Join(Tail(palavras), <<" ">>),
         emailExterno |-> d.email,
         telephoneNumber |-> d.telefone,
         sambaPwdLastSet |-> t.samba_today,
         sambaKickoffTime |-> t.samba_kickoff,
         sambaPwdMustChange |-> t.samba_kickoff,
         shadowLastChange |-> t.shadow_today,
         shadowMax |-> to_string(DiasDeRenovacao),
         dataCriacao |-> t.shadow_today,
         dataRenovacao |-> t.shadow_renovacao,
         criador |-> p]

\* An add that takes the rid for uidNumber and the uid for the sambaSID.
NovaContaIdsTrocados(username, d, samba_uid, samba_rid, agora, p) ==
    LET palavras == split_whitespace(d.nome)
        t == tempos(agora)
    IN  [ou |-> "alunos", rdn |-> username, uid |-> Some(username), dre |-> None,
         dccDRE |-> Some(d.dre),
         uidNumber |-> samba_rid,
         sambaSID |-> SambaSidPrefix \o samba_uid,
         homeDirectory |-> RaizDosAlunos \o username,
         mail |-> username \o DominioDoMail,
         gecos |-> deunicode(d.nome),
         cn |-> palavras[1],
         sn |-> Join(Tail(palavras), <<" ">>),
         emailExterno |-> d.email,
         telephoneNumber |-> d.telefone,
         sambaPwdLastSet |-> t.samba_today,
         sambaKickoffTime |-> t.samba_kickoff,
         sambaPwdMustChange |-> t.samba_kickoff,
         shadowLastChange |-> t.shadow_today,
         shadowMax |-> to_string(DiasDeRenovacao),
         dataCriacao |-> t.shadow_today,
         dataRenovacao |-> t.shadow_renovacao,
         criador |-> p]

\* The entry of the ldap.add of cadastrar_usuario (lines 32-136): its DN,
\* and the attributes that come from the request, the username, the ids
\* and the clock.  The attributes that are fixed texts or texts of the
\* configuration, and the two password hashes, are left out.
NovaConta(username, d, samba_uid, samba_rid, agora, p) ==
    LET palavras == split_whitespace(d.nome)
        t == tempos(agora)
    IN  [ou |-> "alunos", rdn |-> username, uid |-> Some(username), dre |-> None,
         dccDRE |-> Some(d.dre),
         uidNumber |-> samba_uid,
         sambaSID |-> SambaSidPrefix \o samba_rid,
         homeDirectory |-> RaizDosAlunos \o username,
         mail |-> username \o DominioDoMail,
         gecos |-> deunicode(d.nome),
         cn |-> palavras[1],
         sn |-> Join(Tail(palavras), <<" ">>),
         emailExterno |-> d.email,
         telephoneNumber |-> d.telefone,
         sambaPwdLastSet |-> t.samba_today,
         sambaKickoffTime |-> t.samba_kickoff,
         sambaPwdMustChange |-> t.samba_kickoff,
         shadowLastChange |-> t.shadow_today,
         shadowMax |-> to_string(DiasDeRenovacao),
         dataCriacao |-> t.shadow_today,
         dataRenovacao |-> t.shadow_renovacao,
         criador |-> p]

\* The sambaDomain entry that holds the two counters.
Contador(presente, uidNumber, sambaNextRid) ==
    [presente |-> presente, uidNumber |-> uidNumber, sambaNextRid |-> sambaNextRid]

\* A directory that applies the modify without looking at the old values.
ModifyAceitoSemComparar(c, samba_uid, samba_rid) == c.presente

\* Whether the directory accepts the modify of samba_ids: the four changes
\* are applied together, and deleting a value the attribute does not hold
\* fails the whole modify.
ModifyAceito(c, samba_uid, samba_rid) ==
    /\ c.presente
    /\ c.uidNumber = Some(samba_uid)
    /\ c.sambaNextRid = Some(samba_rid)

\* A directory that accepts an add whatever entries it holds.
AddAceitoSempre(cs, e) == TRUE

\* Whether the directory accepts the add: no entry has that DN yet.
AddAceito(cs, e) == \A x \in cs : ~(x.ou = e.ou /\ x.rdn = e.rdn)

\* A budget of one more turn.
TentativasSambaSeis == 5 + 1

\* The retry budget of the modify loop of samba_ids (for _ in 1..=5).
TentativasSamba == 5

(***************************************************************************)
(* Inputs of the model                                                     *)
(***************************************************************************)
NProc == 2

Procs == 1..NProc

DreBom == <<"1","2","3","4","5","6","7","8","9">>

CodigoBom ==
    <<"A","B","1","2",".","A","B","1","2",".","A","B","1","2",".","A","B","1","2",".",
      "A","B","1","2",".","A","B","1","2",".","A","B","1","2",".","A","B","1","2">>

PedidoBase ==
    [dre |-> DreBom,
     data |-> <<"1","/","2","/","2","5">>,
     hora |-> <<"9",":","5">>,
     codigo |-> CodigoBom,
     nome |-> <<"a","n","a"," ","d","e"," ","S","a_agudo">>,
     email |-> <<"a","n","a","@","X",".","b","r">>,
     telefone |-> <<"(","2","1",")","9","9","9","9","-","8","8","8","8">>,
     senha |-> <<"S","e","n","h","a","1","2","3">>]

\* The base request and its variations in one field each: a valid but not
\* canonical identifier, and one rejected value per field.
\* A name of two words whose first has 19 letters.
NomeSemUsername ==
    <<"M","a","x","i","m","i","l","i","a","n","o","a","u","g","u","s","t","o","s"," ","S","a">>

Pedidos ==
    { PedidoBase,
      [PedidoBase EXCEPT !.dre = DreBom \o <<" ">>],
      [PedidoBase EXCEPT !.dre = <<"1","2","3">>],
      [PedidoBase EXCEPT !.data = <<"1","/","2">>],
      [PedidoBase EXCEPT !.hora = <<"9">>],
      [PedidoBase EXCEPT !.codigo = <<"a","b","1","2">>],
      [PedidoBase EXCEPT !.nome = <<"A","n","a">>],
      [PedidoBase EXCEPT !.nome = <<"A","n","a"," ","S","7">>],
      [PedidoBase EXCEPT !.email = <<"a","n","a">>],
      [PedidoBase EXCEPT !.telefone = <<"9","9","9">>],
      [PedidoBase EXCEPT !.senha = <<"s","e","n","h","a">>],
      [PedidoBase EXCEPT !.nome = NomeSemUsername] }

\* The times Utc::now().timestamp() gives to the calls of the model.
Agoras == {1761708345}

Rg == <<"1","2">>

Fisica == <<"F","i","s","i","c","a">>

Pagina(valido, invalido, itens) ==
    [valido |-> valido, invalido |-> invalido, itens |-> itens]

\* The responses of the portal the model draws from.
Paginas ==
    { Pagina(TRUE, FALSE, << <<"A","N","A"," ","S","A">>, Rg, CursoAlvo >>),
      Pagina(TRUE, FALSE, << <<"A","N","A"," ","L","I","M","A"," ","S","A">>, Rg, CursoAlvo >>),
      Pagina(TRUE, FALSE, << <<"A","7">>, Rg, CursoAlvo >>),
      Pagina(TRUE, FALSE, << <<"A","N","A"," ","S","A">>, Rg, Fisica >>),
      Pagina(TRUE, FALSE, << <<"A","N","A"," ","S","A">>, CursoAlvo >>),
      Pagina(FALSE, TRUE, <<>>),
      Pagina(TRUE, TRUE, <<>>),
      Pagina(FALSE, FALSE, <<>>) }

Anas == <<"a","n","a","s">>

Anasa == <<"a","n","a","s","a">>

\* The directories a registration may find.
DiretoriosIniciais ==
    { {},
      { Conta("alunos", Anas, Some(Anas), Some(DreBom)) },
      { Conta("alunos", Anas, None, Some(DreBom)) },
      { Conta("alunos", Anas, Some(Anas), None) },
      { Conta("outros", Anas, Some(Anas), None),
        Conta("alunos", Anasa, Some(Anasa), None) } }

ContadorBom == Contador(TRUE, Some(<<"7">>), Some(<<"9">>))

ContadoresIniciais ==
    { ContadorBom,
      Contador(FALSE, None, None),
      Contador(TRUE, None, Some(<<"9">>)),
      Contador(TRUE, Some(<<"7">>), Some(<<"x">>)),
      Contador(TRUE, Some(I64Max), Some(<<"9">>)) }


(***************************************************************************)
(* State                                                                   *)
(***************************************************************************)
VARIABLES
    contas,     \* the account entries of the directory
    contador,   \* the sambaDomain entry
    pedido,     \* pedido[p]: the DadosParaCadastro as submitted
    dados,      \* dados[p]: self, as the validators rewrite it
    pc,         \* pc[p]: where cadastrar is
    siga,       \* siga[p]: the future of portal_ufrj::consulta
    ldap,       \* ldap[p]: the future of rodar_ldap and its closure
    juncao,     \* juncao[p]: the pair of results tokio::join! gave
    ret,        \* ret[p]: what cadastrar returned
    ops         \* ops[p]: the requests p sent, in order, with their outcome

vars == <<contas, contador, pedido, dados, pc, siga, ldap, juncao, ret, ops>>

\* A request as logged: its arguments and how it ended: "ok", "recusado" (the
\* server answered with a failure) or "erro" (no answer: a transport error).
OpR(op, a, r) == [op |-> op, a |-> a, ok |-> r = "ok", r |-> r]

Op(op, a, ok) == OpR(op, a, IF ok THEN "ok" ELSE "erro")

SigaParado == [pc |-> "-", res |-> Pendente]

LdapParado ==
    [pc |-> "-", modo |-> "-", username |-> <<>>, cands |-> <<>>, k |-> 0,
     ret |-> Pendente, res |-> Pendente,
     samba_uid |-> <<>>, samba_rid |-> <<>>,
     prox_samba_uid |-> <<>>, prox_samba_rid |-> <<>>, tent |-> 0]

\* rodar_ldap is entered: the next step is LdapConnAsync::new.
SessaoNova(modo, username) ==
    [LdapParado EXCEPT !.pc = "conectar", !.modo = modo, !.username = username]

\* The closure of rodar_ldap returns r: rodar_ldap goes on to the unbind.
\* In the mode "samba" the model runs samba_ids alone, on a session that
\* the caller owns.
FimClosure(l, r) ==
    IF l.modo = "samba"
    THEN [l EXCEPT !.pc = "feito", !.ret = r, !.res = r]
    ELSE [l EXCEPT !.pc = "unbind", !.ret = r]

Log(p, e) == ops' = [ops EXCEPT ![p] = Append(@, e)]

(***************************************************************************)
(* cadastro_aluno.rs: cadastrar up to the join                             *)
(***************************************************************************)
\* Lines 154-171: the validators of the document fields, then both futures
\* of the join are created.
Validar(p) ==
    /\ pc[p] = "validar"
    /\ LET v == validar_documento(dados[p])
       IN  /\ dados' = [dados EXCEPT ![p] = v.dados]
           /\ IF v.ok
              THEN /\ pc' = [pc EXCEPT ![p] = "join"]
                   /\ siga' = [siga EXCEPT ![p] = [pc |-> "build", res |-> Pendente]]
                   /\ ldap' = [ldap EXCEPT ![p] = SessaoNova("consulta", <<>>)]
                   /\ ret' = ret
              ELSE /\ pc' = [pc EXCEPT ![p] = "fim"]
                   /\ ret' = [ret EXCEPT ![p] = v.erro]
                   /\ UNCHANGED <<siga, ldap>>
    /\ UNCHANGED <<contas, contador, pedido, juncao, ops>>

(***************************************************************************)
(* portal_ufrj.rs: consulta                                                *)
(***************************************************************************)
\* Line 75: ClientBuilder::build()?, before any request is sent.
SigaBuild(p) ==
    /\ siga[p].pc = "build"
    /\ \E construido \in BOOLEAN :
          siga' = [siga EXCEPT ![p] =
                     IF construido THEN [@ EXCEPT !.pc = "get"]
                     ELSE [pc |-> "feito", res |-> ConsultaErro("ErroReqwest")]]
    /\ UNCHANGED <<contas, contador, pedido, dados, pc, ldap, juncao, ret, ops>>

\* Line 77, client.get(GET_URL).send().await?: the GET is answered, or
\* fails.
SigaGetSend(p) ==
    /\ siga[p].pc = "get"
    /\ \E respondido \in BOOLEAN :
          /\ siga' = [siga EXCEPT ![p] =
                        IF respondido THEN [@ EXCEPT !.pc = "get_text"]
                        ELSE [pc |-> "feito", res |-> ConsultaErro("ErroReqwest")]]
          /\ Log(p, Op("siga_get", <<>>, respondido))
    /\ UNCHANGED <<contas, contador, pedido, dados, pc, ldap, juncao, ret>>

\* Lines 77-85, .text().await?: the body of the form arrives, or its read
\* fails; then the ViewState is looked up in it.
SigaGetText(p) ==
    /\ siga[p].pc = "get_text"
    /\ \E r \in {"ok", "ErroReqwest", "SemViewState"} :
          siga' = [siga EXCEPT ![p] =
                     IF r = "ok" THEN [@ EXCEPT !.pc = "post"]
                     ELSE [pc |-> "feito", res |-> ConsultaErro(r)]]
    /\ UNCHANGED <<contas, contador, pedido, dados, pc, ldap, juncao, ret, ops>>

\* Lines 87-108, client.post(POST_URL).form(&form).send().await?: the POST
\* of the four document fields is answered, or fails.
SigaPostSend(p) ==
    /\ siga[p].pc = "post"
    /\ \E respondido \in BOOLEAN :
          /\ siga' = [siga EXCEPT ![p] =
                        IF respondido THEN [@ EXCEPT !.pc = "post_text"]
                        ELSE [pc |-> "feito", res |-> ConsultaErro("ErroReqwest")]]
          /\ Log(p, Op("siga_post",
                       <<dados[p].dre, dados[p].data, dados[p].hora, dados[p].codigo>>,
                       respondido))
    /\ UNCHANGED <<contas, contador, pedido, dados, pc, ldap, juncao, ret>>

\* Lines 109-151, .text().await?: the body of the response arrives and is
\* classified, or its read fails.
SigaPostText(p) ==
    /\ siga[p].pc = "post_text"
    /\ \/ siga' = [siga EXCEPT ![p] =
                     [pc |-> "feito", res |-> ConsultaErro("ErroReqwest")]]
       \/ \E pagina \in Paginas :
             siga' = [siga EXCEPT ![p] =
                        [pc |-> "feito", res |-> consulta_classificar(pagina)]]
    /\ UNCHANGED <<contas, contador, pedido, dados, pc, ldap, juncao, ret, ops>>

(***************************************************************************)
(* ldap/utils.rs: rodar_ldap                                               *)
(***************************************************************************)
\* Line 14: LdapConnAsync::new(url).await?
LdapConectar(p) ==
    /\ ldap[p].pc = "conectar"
    /\ \E aceito \in BOOLEAN :
          /\ ldap' = [ldap EXCEPT ![p] =
                        IF aceito THEN [@ EXCEPT !.pc = "bind"]
                        ELSE [@ EXCEPT !.pc = "feito", !.res = ErroLdap("ErroLdap")]]
          /\ Log(p, Op("conectar", <<>>, aceito))
    /\ UNCHANGED <<contas, contador, pedido, dados, pc, siga, juncao, ret>>

\* A probe whose session goes on to the counters, as cadastrar_usuario's does.
PrimeiroPassoEscreve(l) == [l EXCEPT !.pc = "samba_search"]

\* Line 16: ldap.simple_bind(bind_dn, bind_pw).await?.success()?, and on
\* success line 18, the call of the closure up to its first request.
PrimeiroPasso(l) ==
    IF l.modo = "consulta" THEN [l EXCEPT !.pc = "consulta_dre"]
    ELSE [l EXCEPT !.pc = "samba_search"]

\* A rodar_ldap that sends the unbind when the bind was refused.
PrimeiroPassoComUnbind(l) == [l EXCEPT !.pc = "unbind"]

\* What rodar_ldap does when the bind fails: the ? returns at once.
BindRecusado(l) == [l EXCEPT !.pc = "feito", !.res = ErroLdap("ErroLdap")]

LdapBind(p) ==
    /\ ldap[p].pc = "bind"
    /\ \E aceito \in BOOLEAN :
          /\ ldap' = [ldap EXCEPT ![p] =
                        IF aceito THEN PrimeiroPasso(@) ELSE BindRecusado(@)]
          /\ Log(p, Op("bind", <<>>, aceito))
    /\ UNCHANGED <<contas, contador, pedido, dados, pc, siga, juncao, ret>>

\* A rodar_ldap that returns what the closure returned whatever the unbind did.
ResultadoSessaoIgnoraUnbind(l, aceito) == l.ret

\* What rodar_ldap returns after the unbind (lines 20-22): the error of the
\* unbind, or else what the closure returned.
ResultadoSessao(l, aceito) == IF aceito THEN l.ret ELSE ErroLdap("ErroLdap")

\* Lines 20-22: ldap.unbind().await?; ret
Unbind(p) ==
    /\ ldap[p].pc = "unbind"
    /\ \E aceito \in BOOLEAN :
          /\ ldap' = [ldap EXCEPT ![p] =
                        [ldap[p] EXCEPT !.pc = "feito",
                                        !.res = ResultadoSessao(ldap[p], aceito)]]
          /\ Log(p, Op("unbind", <<>>, aceito))
    /\ UNCHANGED <<contas, contador, pedido, dados, pc, siga, juncao, ret>>


(***************************************************************************)
(* ldap/consulta.rs                                                        *)
(***************************************************************************)
\* A consulta_dre that takes a matching entry without uid for no entry.
consulta_dre_sem_falha_uid(dre, cs) ==
    LET achadas == {e \in cs : e.dre = Some(dre)}
    IN  IF achadas = {} THEN {R("None", "-", <<>>, <<>>)}
        ELSE {IF e.uid.some THEN R("Some", "-", e.uid.val, <<>>)
              ELSE R("None", "-", <<>>, <<>>) : e \in achadas}

\* consulta_dre, lines 64-77: what it returns for the entries the search
\* gave.  The filter is (dre=...), on the attribute dre, and first() takes
\* whichever matching entry the server sent first.
consulta_dre(dre, cs) ==
    LET achadas == {e \in cs : e.dre = Some(dre)}
    IN  IF achadas = {} THEN {R("None", "-", <<>>, <<>>)}
        ELSE {IF e.uid.some THEN R("Some", "-", e.uid.val, <<>>)
              ELSE ErroLdap("FalhaUid") : e \in achadas}

\* consulta_usuario_existe, lines 96-108: the filter is (uid=...).
consulta_usuario_existe(username, cs) == \E e \in cs : e.uid = Some(username)

\* A loop that starts at the second candidate.
InicioAcharNomeDoSegundo(l, nome) ==
    LET n == from_str(nome)
    IN  IF ~n.ok
        THEN FimClosure(l, R("ErroLdap", "ErroDeNome", <<n.erro>>, <<>>))
        ELSE IF Len(usernames(n.nome)) < 2
        THEN FimClosure(l, ErroLdap("UsuarioDificil"))
        ELSE [l EXCEPT !.pc = "achar_nome", !.cands = usernames(n.nome), !.k = 2]

\* An achar_nome_livre that offers the name as it came when it cannot be
\* parsed.
InicioAcharNomeSemParse(l, nome) ==
    LET n == from_str(nome)
    IN  IF ~n.ok
        THEN FimClosure(l, R("CadastroDisponivel", "-", nome, <<>>))
        ELSE IF usernames(n.nome) = <<>>
        THEN FimClosure(l, ErroLdap("UsuarioDificil"))
        ELSE [l EXCEPT !.pc = "achar_nome", !.cands = usernames(n.nome), !.k = 1]

\* achar_nome_livre, line 84: the name is parsed and the iterator made.
InicioAcharNome(l, nome) ==
    LET n == from_str(nome)
    IN  IF ~n.ok
        THEN FimClosure(l, R("ErroLdap", "ErroDeNome", <<n.erro>>, <<>>))
        ELSE IF usernames(n.nome) = <<>>
        THEN FimClosure(l, ErroLdap("UsuarioDificil"))
        ELSE [l EXCEPT !.pc = "achar_nome", !.cands = usernames(n.nome), !.k = 1]

\* consultar_cadastro_ldap, lines 36-43, up to the first search of
\* achar_nome_livre.
ConsultaDre(p) ==
    /\ ldap[p].pc = "consulta_dre"
    /\ \E aceito \in BOOLEAN : \E r \in consulta_dre(dados[p].dre, contas) :
          /\ ldap' = [ldap EXCEPT ![p] =
                        IF ~aceito THEN FimClosure(@, ErroLdap("ErroLdap"))
                        ELSE IF r.tag = "ErroLdap" THEN FimClosure(@, r)
                        ELSE IF r.tag = "Some"
                        THEN FimClosure(@, R("CadastroRedundante", "-", r.arg, <<>>))
                        ELSE InicioAcharNome(@, dados[p].nome)]
          /\ Log(p, Op("search_dre", <<dados[p].dre>>, aceito))
    /\ UNCHANGED <<contas, contador, pedido, dados, pc, siga, juncao, ret>>

\* achar_nome_livre, lines 84-89: one turn of the loop.
AcharNome(p) ==
    /\ ldap[p].pc = "achar_nome"
    /\ LET l == ldap[p]
           username == l.cands[l.k]
       IN  \E aceito \in BOOLEAN :
              /\ ldap' = [ldap EXCEPT ![p] =
                            IF ~aceito THEN FimClosure(l, ErroLdap("ErroLdap"))
                            ELSE IF ~consulta_usuario_existe(username, contas)
                            THEN FimClosure(l, R("CadastroDisponivel", "-", username, <<>>))
                            ELSE IF l.k < Len(l.cands) THEN [l EXCEPT !.k = l.k + 1]
                            ELSE FimClosure(l, ErroLdap("UsuarioDificil"))]
              /\ Log(p, Op("search_uid", <<username>>, aceito))
    /\ UNCHANGED <<contas, contador, pedido, dados, pc, siga, juncao, ret>>

(***************************************************************************)
(* ldap/cadastrar.rs                                                       *)
(***************************************************************************)
\* samba_ids, lines 161-185: from the entry found to the two pairs of
\* values, or ErroSamba, or a panic of an addition that overflowed.  The
\* uid is parsed and incremented before the rid is parsed.
LeituraErro ==
    [ok |-> FALSE, panico |-> FALSE, samba_uid |-> <<>>, samba_rid |-> <<>>,
     prox_samba_uid |-> <<>>, prox_samba_rid |-> <<>>]

LeituraPanico == [LeituraErro EXCEPT !.panico = TRUE]

samba_ids_leitura(c) ==
    IF ~c.presente \/ ~c.uidNumber.some \/ ~c.sambaNextRid.some
       \/ ~parse_i64(c.uidNumber.val).ok
    THEN {LeituraErro}
    ELSE LET uid == parse_i64(c.uidNumber.val)
             rid == parse_i64(c.sambaNextRid.val)
             um(pu) ==
                 IF pu.panico THEN {LeituraPanico}
                 ELSE IF ~rid.ok THEN {LeituraErro}
                 ELSE { IF pr.panico THEN LeituraPanico
                        ELSE [ok |-> TRUE, panico |-> FALSE,
                              samba_uid |-> c.uidNumber.val,
                              samba_rid |-> c.sambaNextRid.val,
                              prox_samba_uid |-> i64_texto(pu.v),
                              prox_samba_rid |-> i64_texto(pr.v)]
                        : pr \in i64_soma_um(rid.v) }
         IN  UNION { um(pu) : pu \in i64_soma_um(uid.v) }

\* The task that called samba_ids unwinds: nothing more is sent on its
\* session, the unbind of rodar_ldap included.
SessaoEmPanico(l) ==
    [l EXCEPT !.pc = "feito", !.res = R("Panico", "-", <<>>, <<>>)]

\* samba_ids, lines 151-185: the search of the sambaDomain entry.
SambaSearch(p) ==
    /\ ldap[p].pc = "samba_search"
    /\ \E aceito \in BOOLEAN, lido \in samba_ids_leitura(contador) :
          /\ ldap' = [ldap EXCEPT ![p] =
                        IF ~aceito THEN FimClosure(@, ErroLdap("ErroLdap"))
                        ELSE IF lido.panico THEN SessaoEmPanico(@)
                        ELSE IF ~lido.ok THEN FimClosure(@, ErroLdap("ErroSamba"))
                        ELSE [@ EXCEPT !.pc = "samba_modify", !.tent = 1,
                                       !.samba_uid = lido.samba_uid,
                                       !.samba_rid = lido.samba_rid,
                                       !.prox_samba_uid = lido.prox_samba_uid,
                                       !.prox_samba_rid = lido.prox_samba_rid]]
          /\ Log(p, Op("search_samba", <<>>, aceito))
    /\ UNCHANGED <<contas, contador, pedido, dados, pc, siga, juncao, ret>>

\* A samba_ids that reports ErroSamba after a modify the directory accepted.
IdsObtidosComErro(l) == FimClosure(l, ErroLdap("ErroSamba"))

\* samba_ids returned Ok((prox_samba_uid, prox_samba_rid)): cadastrar_usuario
\* goes on to the add (lines 30-56).
IdsObtidos(l) ==
    IF l.modo = "samba"
    THEN FimClosure(l, R("Ids", "-", l.prox_samba_uid, l.prox_samba_rid))
    ELSE [l EXCEPT !.pc = "add"]

\* samba_ids, lines 187-205: one turn of the modify loop.
SambaModify(p) ==
    /\ ldap[p].pc = "samba_modify"
    /\ LET l == ldap[p]
       IN  \E respondeu \in BOOLEAN :
              LET r == IF ~respondeu THEN "erro"
                       ELSE IF ModifyAceito(contador, l.samba_uid, l.samba_rid)
                       THEN "ok" ELSE "recusado"
              IN  /\ contador' = IF r = "ok"
                                 THEN [contador EXCEPT
                                          !.uidNumber = Some(l.prox_samba_uid),
                                          !.sambaNextRid = Some(l.prox_samba_rid)]
                                 ELSE contador
                  /\ ldap' = [ldap EXCEPT ![p] =
                                IF r = "ok" THEN IdsObtidos(l)
                                ELSE IF l.tent < TentativasSamba
                                THEN [l EXCEPT !.tent = l.tent + 1]
                                ELSE FimClosure(l, ErroLdap("ErroSamba"))]
                  /\ Log(p, OpR("modify",
                                <<l.samba_uid, l.samba_rid,
                                  l.prox_samba_uid, l.prox_samba_rid>>, r))
    /\ UNCHANGED <<contas, pedido, dados, pc, siga, juncao, ret>>

\* A cadastrar_usuario that sends the add again when it was not accepted.
AddRepete(p) ==
    /\ ldap[p].pc = "add"
    /\ \E agora \in Agoras, respondeu \in BOOLEAN :
          LET l == ldap[p]
              e == NovaConta(l.username, dados[p], l.prox_samba_uid, l.prox_samba_rid,
                             agora, p)
          IN  LET r == IF ~respondeu THEN "erro"
                       ELSE IF AddAceito(contas, e) THEN "ok" ELSE "recusado"
              IN  /\ contas' = IF r = "ok" THEN contas \cup {e} ELSE contas
                  /\ ldap' = [ldap EXCEPT ![p] =
                                IF r = "ok" THEN FimClosure(l, R("Ok", "-", <<>>, <<>>))
                                ELSE l]
                  /\ Log(p, OpR("add", <<l.username, dados[p].dre>>, r))
    /\ UNCHANGED <<contador, pedido, dados, pc, siga, juncao, ret>>

\* cadastrar_usuario, lines 32-141: the clock is read and the new entry
\* added.
Add(p) ==
    /\ ldap[p].pc = "add"
    /\ \E agora \in Agoras, respondeu \in BOOLEAN :
          LET l == ldap[p]
              e == NovaConta(l.username, dados[p], l.prox_samba_uid, l.prox_samba_rid,
                             agora, p)
          IN  LET r == IF ~respondeu THEN "erro"
                       ELSE IF AddAceito(contas, e) THEN "ok" ELSE "recusado"
              IN  /\ contas' = IF r = "ok" THEN contas \cup {e} ELSE contas
                  /\ ldap' = [ldap EXCEPT ![p] =
                                FimClosure(l, IF r = "ok" THEN R("Ok", "-", <<>>, <<>>)
                                              ELSE ErroLdap("ErroLdap"))]
                  /\ Log(p, OpR("add", <<l.username, dados[p].dre>>, r))
    /\ UNCHANGED <<contador, pedido, dados, pc, siga, juncao, ret>>

(***************************************************************************)
(* cadastro_aluno.rs: cadastrar from the join on                           *)
(***************************************************************************)
\* A select in place of the join: yields when either future has completed.
JoinProntoPrimeiro(p) == siga[p].pc = "feito" \/ ldap[p].pc = "feito"

\* tokio::join! (lines 162-171) yields when both futures have completed.
JoinPronto(p) == siga[p].pc = "feito" /\ ldap[p].pc = "feito"

\* Lines 173-203: the two results are matched, the names compared, and
\* cadastrar_sem_verificar_documento runs up to rodar_ldap.
Reconciliar(p) ==
    /\ pc[p] = "join"
    /\ JoinPronto(p)
    /\ LET r == reconciliar(ldap[p].res, siga[p].res, dados[p].nome)
           v == validar_cadastro(dados[p])
       IN  /\ juncao' = [juncao EXCEPT ![p] = [siga |-> siga[p].res, ldap |-> ldap[p].res]]
           /\ IF r.tag # "Prosseguir"
              THEN /\ ret' = [ret EXCEPT ![p] = r]
                   /\ pc' = [pc EXCEPT ![p] = "fim"]
                   /\ UNCHANGED <<dados, ldap>>
              ELSE /\ dados' = [dados EXCEPT ![p] = v.dados]
                   /\ IF v.ok
                      THEN /\ pc' = [pc EXCEPT ![p] = "cadastro"]
                           /\ ldap' = [ldap EXCEPT ![p] = SessaoNova("cadastro", r.arg)]
                           /\ ret' = ret
                      ELSE /\ pc' = [pc EXCEPT ![p] = "fim"]
                           /\ ret' = [ret EXCEPT ![p] = v.erro]
                           /\ ldap' = ldap
    /\ UNCHANGED <<contas, contador, pedido, siga, ops>>

\* Lines 134-144, and 203-205 in a call of cadastrar: cadastrar_usuario
\* returned, or panicked.  cadastrar_sem_verificar_documento returns Ok(())
\* and cadastrar, of it, Ok(username).
Concluir(p) ==
    /\ pc[p] \in {"cadastro", "direto"}
    /\ ldap[p].pc = "feito"
    /\ ret' = [ret EXCEPT ![p] =
                 IF ldap[p].res.tag = "Ok"
                 THEN R("Ok", "-", IF pc[p] = "cadastro" THEN ldap[p].username ELSE <<>>,
                        <<>>)
                 ELSE IF ldap[p].res.tag = "Panico" THEN ldap[p].res
                 ELSE R("ErroNoCadastro", ldap[p].res.sub, ldap[p].res.arg, <<>>)]
    /\ pc' = [pc EXCEPT ![p] = "fim"]
    /\ UNCHANGED <<contas, contador, pedido, dados, siga, ldap, juncao, ops>>

(***************************************************************************)
(* main.rs: the command NovoAluno                                          *)
(***************************************************************************)
Root2 == <<"r","o","o","t","2">>

\* The usernames the command line gives to the model.
UsernamesDeComando == {Anas, Root2}

\* main.rs, lines 65-99, and cadastro_aluno.rs, lines 112-133: the command
\* calls cadastrar_sem_verificar_documento with the username of the command
\* line; the five fields are validated and cadastrar_usuario is entered,
\* with no check of the document, no probe and no comparison of names.
NovoAluno(p) ==
    /\ pc[p] = "novo_aluno"
    /\ \E username \in UsernamesDeComando :
          LET v == validar_cadastro(dados[p])
          IN  /\ dados' = [dados EXCEPT ![p] = v.dados]
              /\ IF v.ok
                 THEN /\ pc' = [pc EXCEPT ![p] = "direto"]
                      /\ ldap' = [ldap EXCEPT ![p] = SessaoNova("cadastro", username)]
                      /\ ret' = ret
                 ELSE /\ pc' = [pc EXCEPT ![p] = "fim"]
                      /\ ret' = [ret EXCEPT ![p] = v.erro]
                      /\ ldap' = ldap
    /\ UNCHANGED <<contas, contador, pedido, siga, juncao, ops>>

(***************************************************************************)
(* Specifications                                                          *)
(***************************************************************************)
SemJuncao == [siga |-> Pendente, ldap |-> Pendente]

\* Spec: one call of cadastrar, with any request of Pedidos, against any
\* of the initial directories.
Init ==
    /\ contas \in DiretoriosIniciais
    /\ contador \in ContadoresIniciais
    /\ \E d \in Pedidos : pedido = [p \in Procs |-> IF p = 1 THEN d ELSE PedidoBase]
    /\ dados = pedido
    /\ pc = [p \in Procs |-> IF p = 1 THEN "validar" ELSE "-"]
    /\ siga = [p \in Procs |-> SigaParado]
    /\ ldap = [p \in Procs |-> LdapParado]
    /\ juncao = [p \in Procs |-> SemJuncao]
    /\ ret = [p \in Procs |-> Pendente]
    /\ ops = [p \in Procs |-> <<>>]

Next ==
    \E p \in Procs :
        \/ Validar(p)
        \/ SigaBuild(p)
        \/ SigaGetSend(p)
        \/ SigaGetText(p)
        \/ SigaPostSend(p)
        \/ SigaPostText(p)
        \/ LdapConectar(p)
        \/ LdapBind(p)
        \/ ConsultaDre(p)
        \/ AcharNome(p)
        \/ Reconciliar(p)
        \/ SambaSearch(p)
        \/ SambaModify(p)
        \/ Add(p)
        \/ Unbind(p)
        \/ Concluir(p)

Spec == Init /\ [][Next]_vars

\* main.rs, lines 80-89: the request of the command has no document fields.
PedidoDeComando(d) == [d EXCEPT !.data = <<>>, !.hora = <<>>, !.codigo = <<>>]

\* SpecComando: one registration, by a call of cadastrar or by the command
\* NovoAluno, with any request of Pedidos, against any of the initial
\* directories.
InitComando ==
    /\ contas \in DiretoriosIniciais
    /\ contador \in ContadoresIniciais
    /\ \E d \in Pedidos, entrada \in {"validar", "novo_aluno"} :
          /\ pedido = [p \in Procs |->
                          IF p # 1 THEN PedidoBase
                          ELSE IF entrada = "novo_aluno" THEN PedidoDeComando(d)
                          ELSE d]
          /\ pc = [p \in Procs |-> IF p = 1 THEN entrada ELSE "-"]
    /\ dados = pedido
    /\ siga = [p \in Procs |-> SigaParado]
    /\ ldap = [p \in Procs |-> LdapParado]
    /\ juncao = [p \in Procs |-> SemJuncao]
    /\ ret = [p \in Procs |-> Pendente]
    /\ ops = [p \in Procs |-> <<>>]

NextComando == Next \/ \E p \in Procs : NovoAluno(p)

SpecComando == InitComando /\ [][NextComando]_vars

\* SpecJusto: one call of cadastrar with the request PedidoBase, against any
\* directory of DiretoriosIniciais, in which every request returns.
InitJusto ==
    /\ contas \in DiretoriosIniciais
    /\ contador = ContadorBom
    /\ pedido = [p \in Procs |-> PedidoBase]
    /\ dados = pedido
    /\ pc = [p \in Procs |-> IF p = 1 THEN "validar" ELSE "-"]
    /\ siga = [p \in Procs |-> SigaParado]
    /\ ldap = [p \in Procs |-> LdapParado]
    /\ juncao = [p \in Procs |-> SemJuncao]
    /\ ret = [p \in Procs |-> Pendente]
    /\ ops = [p \in Procs |-> <<>>]

\* No call is under way: each has returned or was never made.
Terminado == \A p \in Procs : pc[p] \in {"fim", "-"}

\* Every request returns: while a call is under way, steps keep being
\* taken.  This is weak fairness of Next with the enabling condition
\* written out as ~Terminado.
RequisicoesRetornam == []<>Terminado \/ []<><<Next>>_vars

SpecJusto == InitJusto /\ [][Next]_vars /\ RequisicoesRetornam

\* SpecSamba: every process runs samba_ids, concurrently, each on a bound
\* session of its own.
InitSamba ==
    /\ contas = {}
    /\ contador \in ContadoresIniciais
    /\ pedido = [p \in Procs |-> PedidoBase]
    /\ dados = pedido
    /\ pc = [p \in Procs |-> "samba"]
    /\ siga = [p \in Procs |-> SigaParado]
    /\ ldap = [p \in Procs |->
                 [LdapParado EXCEPT !.pc = "samba_search", !.modo = "samba"]]
    /\ juncao = [p \in Procs |-> SemJuncao]
    /\ ret = [p \in Procs |-> Pendente]
    /\ ops = [p \in Procs |-> <<>>]

NextSamba == \E p \in Procs : SambaSearch(p) \/ SambaModify(p)

SpecSamba == InitSamba /\ [][NextSamba]_vars


\* SpecRepetido: the calls of cadastrar come one after the other, all with
\* the same request: a call is made when the one before it has returned.
InitRepetido ==
    /\ contas = {}
    /\ contador = ContadorBom
    /\ pedido = [p \in Procs |-> PedidoBase]
    /\ dados = pedido
    /\ pc = [p \in Procs |-> IF p = 1 THEN "validar" ELSE "-"]
    /\ siga = [p \in Procs |-> SigaParado]
    /\ ldap = [p \in Procs |-> LdapParado]
    /\ juncao = [p \in Procs |-> SemJuncao]
    /\ ret = [p \in Procs |-> Pendente]
    /\ ops = [p \in Procs |-> <<>>]

\* Line 147: cadastrar is called again, after a call that returned Ok.
Iniciar(p) ==
    /\ p > 1
    /\ pc[p] = "-"
    /\ pc[p - 1] = "fim"
    /\ ret[p - 1].tag = "Ok"
    /\ pc' = [pc EXCEPT ![p] = "validar"]
    /\ UNCHANGED <<contas, contador, pedido, dados, siga, ldap, juncao, ret, ops>>

NextRepetido == Next \/ \E p \in Procs : Iniciar(p)

SpecRepetido == InitRepetido /\ [][NextRepetido]_vars


\* SpecConcorrente: every process calls cadastrar, concurrently, each for a
\* student of its own identifier, all of the same name.  The portal answers
\* AlunoDoCurso for each of them and every request to the directory is
\* answered.
DreDe(p) == SubSeq(DreBom, 1, Len(DreBom) - 1) \o to_string(p)

InitConcorrente ==
    /\ contas = {}
    /\ contador = ContadorBom
    /\ pedido = [p \in Procs |-> [PedidoBase EXCEPT !.dre = DreDe(p)]]
    /\ dados = pedido
    /\ pc = [p \in Procs |-> "validar"]
    /\ siga = [p \in Procs |-> SigaParado]
    /\ ldap = [p \in Procs |-> LdapParado]
    /\ juncao = [p \in Procs |-> SemJuncao]
    /\ ret = [p \in Procs |-> Pendente]
    /\ ops = [p \in Procs |-> <<>>]

\* The environment of SpecConcorrente: no request is left unanswered, and
\* the portal's page is that of a student of the program.
AmbienteCalmo ==
    \A p \in Procs :
        /\ \A i \in DOMAIN ops[p] : ops[p][i].r # "erro"
        /\ siga[p].res \in {Pendente, R("AlunoDoCurso", "-", <<"A","N","A"," ","S","A">>, <<>>)}

NextConcorrente == Next /\ AmbienteCalmo'

SpecConcorrente == InitConcorrente /\ [][NextConcorrente]_vars

\* SpecMesmoDre: the calls of SpecConcorrente, all submitted with the same
\* enrollment identifier.
InitMesmoDre ==
    /\ contas = {}
    /\ contador = ContadorBom
    /\ pedido = [p \in Procs |-> PedidoBase]
    /\ dados = pedido
    /\ pc = [p \in Procs |-> "validar"]
    /\ siga = [p \in Procs |-> SigaParado]
    /\ ldap = [p \in Procs |-> LdapParado]
    /\ juncao = [p \in Procs |-> SemJuncao]
    /\ ret = [p \in Procs |-> Pendente]
    /\ ops = [p \in Procs |-> <<>>]

SpecMesmoDre == InitMesmoDre /\ [][NextConcorrente]_vars


\* SpecPortal: every process classifies a response of the portal to the
\* POST, drawn from PaginasDeTeste: the pages of Paginas and pages with
\* the invalid marker beside fields, with one field more, and with a
\* program that differs from the target in case or in a trailing space.
CursoMinusculo ==
    <<"c","i","e_circ","n","c","i","a"," ","d","a"," ",
      "c","o","m","p","u","t","a","c_cedilha","a_til","o">>

PaginasDeTeste ==
    Paginas \cup
    { Pagina(FALSE, TRUE, << <<"A","N","A"," ","S","A">>, Rg, CursoAlvo >>),
      Pagina(TRUE, TRUE, << <<"A","N","A"," ","S","A">>, Rg, CursoAlvo >>),
      Pagina(FALSE, FALSE, << <<"A","N","A"," ","S","A">>, Rg, CursoAlvo >>),
      Pagina(TRUE, FALSE, <<>>),
      Pagina(TRUE, FALSE, << <<"A","N","A"," ","S","A">>, Rg, CursoAlvo, Fisica >>),
      Pagina(TRUE, FALSE, << <<"A","N","A"," ","S","A">>, Rg, CursoMinusculo >>),
      Pagina(TRUE, FALSE, << <<"A","N","A"," ","S","A">>, Rg, CursoAlvo \o <<" ">> >>),
      Pagina(TRUE, FALSE, << <<>>, <<>>, <<>> >>) }

InitPortal ==
    /\ contas = {}
    /\ contador = ContadorBom
    /\ pedido = [p \in Procs |-> PedidoBase]
    /\ dados = pedido
    /\ pc = [p \in Procs |-> "siga"]
    /\ siga \in [Procs -> {[pc |-> "resposta", res |-> Pendente, pagina |-> pg] :
                              pg \in PaginasDeTeste}]
    /\ ldap = [p \in Procs |-> LdapParado]
    /\ juncao = [p \in Procs |-> SemJuncao]
    /\ ret = [p \in Procs |-> Pendente]
    /\ ops = [p \in Procs |-> <<>>]

\* portal_ufrj.rs, lines 112-150: the response is parsed and classified.
Classificar(p) ==
    /\ siga[p].pc = "resposta"
    /\ siga' = [siga EXCEPT ![p] =
                  [siga[p] EXCEPT !.pc = "feito",
                                  !.res = consulta_classificar(siga[p].pagina)]]
    /\ UNCHANGED <<contas, contador, pedido, dados, pc, ldap, juncao, ret, ops>>

NextPortal == \E p \in Procs : Classificar(p)

SpecPortal == InitPortal /\ [][NextPortal]_vars


\* SpecHash: the first process makes the salted hash of the password of
\* its request with a salt drawn from Sais, a byte of the stored hash may
\* then be changed as one of Mutacoes says, and a password of Segredos is
\* compared with the stored hash.
Segredos ==
    { <<"1","2","3","4","5","6","7","8">>,
      <<"1","2","3","4","5","6","7","9">>,
      <<"S","e","n","h","a","1","2","3">> }

Sais == { <<1,2,3,4>>, <<0,0,0,0>>, <<255,128,7,200>> }

Mutacoes ==
    { [pos |-> 1, c |-> "["],
      [pos |-> 3, c |-> "s"],
      [pos |-> 6, c |-> "]"],
      [pos |-> 7, c |-> "A"],
      [pos |-> 7, c |-> "B"],
      [pos |-> 20, c |-> "A"],
      [pos |-> 20, c |-> "B"],
      [pos |-> 34, c |-> "A"],
      [pos |-> 34, c |-> "B"],
      [pos |-> 36, c |-> "A"],
      [pos |-> 36, c |-> "B"],
      [pos |-> 38, c |-> "A"],
      [pos |-> 38, c |-> "B"],
      [pos |-> 38, c |-> "="],
      [pos |-> 38, c |-> "!"],
      [pos |-> 20, c |-> "="] }

InitHash ==
    /\ contas = {}
    /\ contador = ContadorBom
    /\ \E s \in Segredos :
          pedido = [p \in Procs |-> [PedidoBase EXCEPT !.senha = s]]
    /\ dados = pedido
    /\ pc = [p \in Procs |-> IF p = 1 THEN "hash" ELSE "-"]
    /\ siga = [p \in Procs |-> SigaParado]
    /\ ldap = [p \in Procs |-> LdapParado]
    /\ juncao = [p \in Procs |-> SemJuncao]
    /\ ret = [p \in Procs |-> Pendente]
    /\ ops = [p \in Procs |-> <<>>]

\* hash_ssha, lines 49-58: a salt is drawn and the hash made with it.
HashSsha(p) ==
    /\ pc[p] = "hash"
    /\ \E salt \in Sais :
          ret' = [ret EXCEPT ![p] =
                    R("Hash", "-", hash_ssha_with_salt(dados[p].senha, salt), <<>>)]
    /\ pc' = [pc EXCEPT ![p] = "guardado"]
    /\ UNCHANGED <<contas, contador, pedido, dados, siga, ldap, juncao, ops>>

\* One byte of the stored hash is changed.
Mutar(p) ==
    /\ pc[p] = "guardado"
    /\ ret[p].tag = "Hash"
    /\ \E m \in Mutacoes :
          /\ ret[p].arg[m.pos] # m.c
          /\ ret' = [ret EXCEPT ![p] =
                       R("HashMutado", "-", [ret[p].arg EXCEPT ![m.pos] = m.c], <<>>)]
    /\ UNCHANGED <<contas, contador, pedido, dados, pc, siga, ldap, juncao, ops>>

\* compare_ssha, lines 83-97, of a password of Segredos and the stored hash.
Comparar(p) ==
    /\ pc[p] = "guardado"
    /\ \E passwd \in Segredos :
          ret' = [ret EXCEPT ![p] =
                    R(IF ret[p].tag = "Hash" THEN "Comparado" ELSE "ComparadoMutado",
                      compare_ssha(passwd, ret[p].arg), ret[p].arg, passwd)]
    /\ pc' = [pc EXCEPT ![p] = "fim"]
    /\ UNCHANGED <<contas, contador, pedido, dados, siga, ldap, juncao, ops>>

NextHash == \E p \in Procs : HashSsha(p) \/ Mutar(p) \/ Comparar(p)

SpecHash == InitHash /\ [][NextHash]_vars


\* SpecTempo: the first process reads the clock, any second of
\* SegundosDeTeste of any day of DiasDeTeste, and computes the four times
\* of the entry it would add.
DiasDeTeste ==
    {0, 1, 2, 365, 3600, 10000, 15000, 19000, 20000, 20390, 20391, 20755, 21000}

SegundosDeTeste == {0, 1, 3599, 43200, 86398, 86399}

AgorasDeTeste == {d * SegundosPorDia + s : d \in DiasDeTeste, s \in SegundosDeTeste}

InitTempo ==
    /\ contas = {}
    /\ contador = ContadorBom
    /\ pedido = [p \in Procs |-> PedidoBase]
    /\ dados = pedido
    /\ pc = [p \in Procs |-> IF p = 1 THEN "relogio" ELSE "-"]
    /\ siga = [p \in Procs |-> SigaParado]
    /\ ldap = [p \in Procs |-> LdapParado]
    /\ juncao = [p \in Procs |-> SemJuncao]
    /\ \E agora \in AgorasDeTeste :
          ret = [p \in Procs |-> IF p = 1 THEN R("Agora", "-", agora, <<>>) ELSE Pendente]
    /\ ops = [p \in Procs |-> <<>>]

\* cadastrar_usuario, lines 41-54.
CalcularTempos(p) ==
    /\ pc[p] = "relogio"
    /\ ret' = [ret EXCEPT ![p] = R("Tempos", "-", ret[p].arg, tempos(ret[p].arg))]
    /\ pc' = [pc EXCEPT ![p] = "fim"]
    /\ UNCHANGED <<contas, contador, pedido, dados, siga, ldap, juncao, ops>>

NextTempo == \E p \in Procs : CalcularTempos(p)

SpecTempo == InitTempo /\ [][NextTempo]_vars


\* SpecNome: every process parses a name of NomesDeTeste and, when it is a
\* Nome, makes its usernames.  Each name comes with its letter tokens as a
\* reader takes them: lowercase, without diacritics, particles left out; a
\* letter that has no diacritic to take away, such as U+00DF, stays.
NomesDeTeste ==
    { [raw |-> <<"J","O","S","E"," ","L","I","M","A"," ","D","A"," ","S","I","L","V","A">>,
       letras |-> <<<<"j","o","s","e">>, <<"l","i","m","a">>, <<"s","i","l","v","a">>>>],
      [raw |-> <<"J","o","s","e_agudo"," ","L","i","m","a"," ","S","i","l","v","a">>,
       letras |-> <<<<"j","o","s","e">>, <<"l","i","m","a">>, <<"s","i","l","v","a">>>>],
      [raw |-> <<"j","o","s","e"," "," ","d","a","s"," ","l","i","m","a"," ","s","i","l","v","a">>,
       letras |-> <<<<"j","o","s","e">>, <<"l","i","m","a">>, <<"s","i","l","v","a">>>>],
      [raw |-> <<"J","o","s","e"," ","L","i","m","a"," ","S","o","u","z","a">>,
       letras |-> <<<<"j","o","s","e">>, <<"l","i","m","a">>, <<"s","o","u","z","a">>>>],
      [raw |-> <<"J","o","a","o"," ","S","i","l","v","a">>,
       letras |-> <<<<"j","o","a","o">>, <<"s","i","l","v","a">>>>],
      [raw |-> <<"J","o","a","o"," ","C","a","r","l","o","s"," ","S","i","l","v","a">>,
       letras |-> <<<<"j","o","a","o">>, <<"c","a","r","l","o","s">>, <<"s","i","l","v","a">>>>],
      [raw |-> <<"J","O","A","O"," ","C","A","R","L","O","S"," ","P","E","R","E","I","R","A"," ","D","A"," ","S","I","L","V","A">>,
       letras |-> <<<<"j","o","a","o">>, <<"c","a","r","l","o","s">>, <<"p","e","r","e","i","r","a">>, <<"s","i","l","v","a">>>>],
      [raw |-> <<"J","o","a_til","o"," ","C","o","n","c","e","i","c_cedilha","a_til","o">>,
       letras |-> <<<<"j","o","a","o">>, <<"c","o","n","c","e","i","c","a","o">>>>],
      [raw |-> <<"J","O","A","O"," ","C","O","N","C","E","I","C","A","O">>,
       letras |-> <<<<"j","o","a","o">>, <<"c","o","n","c","e","i","c","a","o">>>>],
      [raw |-> <<"J","O","A_til","O"," ","C","O","N","C","E","I","C_cedilha","A_til","O">>,
       letras |-> <<<<"j","o","a","o">>, <<"c","o","n","c","e","i","c","a","o">>>>],
      [raw |-> <<"Z","o","e_circ"," ","S","i","l","v","a">>,
       letras |-> <<<<"z","o","e">>, <<"s","i","l","v","a">>>>],
      [raw |-> <<"J","o","s","e_agudo">>,
       letras |-> <<<<"j","o","s","e">>>>],
      [raw |-> <<"J","o","s","e"," ","d","o","s"," ","d","a","s">>,
       letras |-> <<<<"j","o","s","e">>>>],
      [raw |-> <<"D","e"," ","D","a">>,
       letras |-> <<>>],
      [raw |-> <<>>,
       letras |-> <<>>],
      [raw |-> <<"C","a","r","l","o","s"," ","7","1">>,
       letras |-> <<<<"c","a","r","l","o","s">>>>],
      [raw |-> <<"7">>,
       letras |-> <<>>],
      [raw |-> <<"A","n","a","-","M","a","r","i","a"," ","S","i","l","v","a">>,
       letras |-> <<<<"a","n","a">>, <<"m","a","r","i","a">>, <<"s","i","l","v","a">>>>],
      [raw |-> <<"A","n","a","\t","S","i","l","v","a">>,
       letras |-> <<<<"a","n","a">>, <<"s","i","l","v","a">>>>],
      [raw |-> <<"A","n","a","euro"," ","S","i","l","v","a">>,
       letras |-> <<<<"a","n","a">>, <<"s","i","l","v","a">>>>],
      [raw |-> <<"A","n","a","nbsp","S","i","l","v","a">>,
       letras |-> <<<<"a","n","a">>, <<"s","i","l","v","a">>>>],
      [raw |-> <<"A","n","a"," ","S","i","l","v","a">>,
       letras |-> <<<<"a","n","a">>, <<"s","i","l","v","a">>>>],
      [raw |-> <<"eszett","i","l","v","a"," ","a","n","a">>,
       letras |-> <<<<"eszett","i","l","v","a">>, <<"a","n","a">>>>],
      [raw |-> <<"i","l","v","a"," ","a","n","a">>,
       letras |-> <<<<"i","l","v","a">>, <<"a","n","a">>>>],
      [raw |-> <<"A","n","a"," ","B"," ","S","i","l","v","a">>,
       letras |-> <<<<"a","n","a">>, <<"b">>, <<"s","i","l","v","a">>>>],
      [raw |-> <<"D","e_agudo"," ","S","i","l","v","a"," ","L","i","m","a">>,
       letras |-> <<<<"s","i","l","v","a">>, <<"l","i","m","a">>>>],
      [raw |-> <<"M","a","x","i","m","i","l","i","a","n","o"," ","A","l","b","u","q","u","e","r","q","u","e"," ","V","a","s","c","o","n","c","e","l","o","s">>,
       letras |-> <<<<"m","a","x","i","m","i","l","i","a","n","o">>, <<"a","l","b","u","q","u","e","r","q","u","e">>, <<"v","a","s","c","o","n","c","e","l","o","s">>>>],
      [raw |-> <<"A","n","a"," ","b"," ","c"," ","d"," ","e"," ","f"," ","g"," ","h"," ","i"," ","j">>,
       letras |-> <<<<"a","n","a">>, <<"b">>, <<"c">>, <<"d">>, <<"e">>, <<"f">>, <<"g">>, <<"h">>, <<"i">>, <<"j">>>>],
      [raw |-> <<"A","n","a"," ","b"," ","c"," ","d"," ","e"," ","f"," ","g"," ","h"," ","i"," ","j"," ","k">>,
       letras |-> <<<<"a","n","a">>, <<"b">>, <<"c">>, <<"d">>, <<"e">>, <<"f">>, <<"g">>, <<"h">>, <<"i">>, <<"j">>, <<"k">>>>],
      [raw |-> <<"A","N","A"," ","B"," ","C"," ","D"," ","E"," ","F"," ","G"," ","H"," ","I"," ","J"," ","L">>,
       letras |-> <<<<"a","n","a">>, <<"b">>, <<"c">>, <<"d">>, <<"e">>, <<"f">>, <<"g">>, <<"h">>, <<"i">>, <<"j">>, <<"l">>>>] }

InitNome ==
    /\ contas = {}
    /\ contador = ContadorBom
    /\ pedido \in [Procs -> {[PedidoBase EXCEPT !.nome = e.raw] : e \in NomesDeTeste}]
    /\ dados = pedido
    /\ pc = [p \in Procs |-> "nome"]
    /\ siga = [p \in Procs |-> SigaParado]
    /\ ldap = [p \in Procs |-> LdapParado]
    /\ juncao = [p \in Procs |-> SemJuncao]
    /\ ret = [p \in Procs |-> Pendente]
    /\ ops = [p \in Procs |-> <<>>]

\* nome.parse::<Nome>()
ParseNome(p) ==
    /\ pc[p] = "nome"
    /\ LET n == from_str(pedido[p].nome)
       IN  /\ ret' = [ret EXCEPT ![p] =
                        IF n.ok THEN R("Nome", "-", n.nome, <<>>)
                        ELSE R("NomeErro", n.erro, <<>>, <<>>)]
           /\ pc' = [pc EXCEPT ![p] = IF n.ok THEN "usernames" ELSE "fim"]
    /\ UNCHANGED <<contas, contador, pedido, dados, siga, ldap, juncao, ops>>

\* nome.usernames().collect()
GerarUsernames(p) ==
    /\ pc[p] = "usernames"
    /\ ldap' = [ldap EXCEPT ![p] = [@ EXCEPT !.cands = usernames(ret[p].arg)]]
    /\ pc' = [pc EXCEPT ![p] = "fim"]
    /\ UNCHANGED <<contas, contador, pedido, dados, siga, juncao, ret, ops>>

NextNome == \E p \in Procs : ParseNome(p) \/ GerarUsernames(p)

SpecNome == InitNome /\ [][NextNome]_vars

\* SpecValidadores: every process passes each field of a request of
\* PedidosDeTeste through its validator, and then each output through the
\* same validator again.
PedidosDeTeste ==
    { [PedidoBase EXCEPT !.dre =
          <<"1","2","3","4","5","6","7","8","9">>],
      [PedidoBase EXCEPT !.dre =
          <<" ","1","2","3","4","5","6","7","8","9"," ">>],
      [PedidoBase EXCEPT !.dre =
          <<"1","2","3">>],
      [PedidoBase EXCEPT !.dre =
          <<"1","2","3","4","5","6","7","8","9","\n">>],
      [PedidoBase EXCEPT !.data =
          <<"1","/","2","/","2","5">>],
      [PedidoBase EXCEPT !.data =
          <<"0","1","/","0","2","/","2","0","2","5">>],
      [PedidoBase EXCEPT !.data =
          <<"1"," ","/"," ","2"," ","/"," ","9","9","9">>],
      [PedidoBase EXCEPT !.data =
          <<"0","1","0","2","2","0","2","5">>],
      [PedidoBase EXCEPT !.data =
          <<"0","1","0","2"," ","2","0","2","5">>],
      [PedidoBase EXCEPT !.data =
          <<"3","1","/","1","2","/","1","0","0","0">>],
      [PedidoBase EXCEPT !.data =
          <<"1","/","2","/","0">>],
      [PedidoBase EXCEPT !.data =
          <<"1","/","2">>],
      [PedidoBase EXCEPT !.data =
          <<"1","/","1","/","1","0","0">>],
      [PedidoBase EXCEPT !.data =
          <<"0","1","0","2","0","9","9","9">>],
      [PedidoBase EXCEPT !.data =
          <<"2","5"," ","1","2"," ","0","2">>],
      [PedidoBase EXCEPT !.data =
          <<"1"," ","1"," ","2","0","0","2">>],
      [PedidoBase EXCEPT !.data =
          <<"1","/","2","/","1","2","3","4","5">>],
      [PedidoBase EXCEPT !.data =
          <<"1","2","3","/","1","/","2","5">>],
      [PedidoBase EXCEPT !.data =
          <<"tres_arabe","/","1","/","2","5">>],
      [PedidoBase EXCEPT !.hora =
          <<"9",":","5">>],
      [PedidoBase EXCEPT !.hora =
          <<"0","9",":","0","5">>],
      [PedidoBase EXCEPT !.hora =
          <<" ","2","3"," ",":"," ","5","9"," ">>],
      [PedidoBase EXCEPT !.hora =
          <<"9">>],
      [PedidoBase EXCEPT !.codigo =
          <<"A","B","1","2",".","A","B","1","2",".","A","B","1","2",".","A","B","1","2",".","A","B","1","2",".","A","B","1","2",".","A","B","1","2",".","A","B","1","2">>],
      [PedidoBase EXCEPT !.codigo =
          <<" ","A","B","1","2"," ","."," ","A","B","1","2",".","A","B","1","2",".","A","B","1","2",".","A","B","1","2",".","A","B","1","2",".","A","B","1","2",".","A","B","1","2"," ">>],
      [PedidoBase EXCEPT !.codigo =
          <<"a","b","1","2",".","A","B","1","2",".","A","B","1","2",".","A","B","1","2",".","A","B","1","2",".","A","B","1","2",".","A","B","1","2",".","A","B","1","2">>],
      [PedidoBase EXCEPT !.nome =
          <<"a","n","a"," ","d","e"," ","S","a_agudo">>],
      [PedidoBase EXCEPT !.nome =
          <<"A","N","A"," ","D","E"," ","S","A_agudo">>],
      [PedidoBase EXCEPT !.nome =
          <<"A","n","a"," "," ","d","e"," "," ","S","a_agudo">>],
      [PedidoBase EXCEPT !.nome =
          <<"D","E"," ","s","a_agudo"," ","l","i","m","a">>],
      [PedidoBase EXCEPT !.nome =
          <<"eszett","i","l","v","a"," ","a","n","a">>],
      [PedidoBase EXCEPT !.nome =
          <<"A","n","a">>],
      [PedidoBase EXCEPT !.email =
          <<"a","n","a","@","X",".","b","r">>],
      [PedidoBase EXCEPT !.email =
          <<" ","a","n","a","@","x",".","b","r"," ">>],
      [PedidoBase EXCEPT !.email =
          <<"A","n","a",".","B","@","D","c","c",".","U","F","R","J",".","b","r">>],
      [PedidoBase EXCEPT !.email =
          <<"a","n","a">>],
      [PedidoBase EXCEPT !.email =
          <<"M","a","r","i","a"," ","<","m","a","r","i","a","@","E","x",".","c","o","m",">">>],
      [PedidoBase EXCEPT !.email =
          <<"j","o","a_til","o","!","@","e","m","a","i","l",".","c","o","m">>],
      [PedidoBase EXCEPT !.email =
          <<"\"","j","o","s","e","@","j","o","a","o","\"","@","e","m","a","i","l",".","c","o","m">>],
      [PedidoBase EXCEPT !.telefone =
          <<"(","2","1",")","9","9","9","9","-","8","8","8","8">>],
      [PedidoBase EXCEPT !.telefone =
          <<"+","5","5"," ","2","1"," ","9","9","9","9","9","-","8","8","8","8">>],
      [PedidoBase EXCEPT !.telefone =
          <<"0","2","1"," ","9","9","9","9"," ","8","8","8","8">>],
      [PedidoBase EXCEPT !.telefone =
          <<"+","5","5","2","1","9","9","9","9","8","8","8","8">>],
      [PedidoBase EXCEPT !.telefone =
          <<"(","0","5",")","9","1","2","3","4","-","5","6","7","8">>],
      [PedidoBase EXCEPT !.telefone =
          <<"0","0","5","9","1","2","3","4","-","5","6","7","8">>],
      [PedidoBase EXCEPT !.telefone =
          <<"9","9","9">>] }

\* The seven validators that rewrite a field, applied to the fields of d.
Validados(d) ==
    [dre |-> processar_dre(d.dre),
     data |-> processar_data(d.data),
     hora |-> processar_hora(d.hora),
     codigo |-> processar_codigo(d.codigo),
     nome |-> processar_nome(d.nome),
     email |-> processar_email(d.email),
     telefone |-> processar_telefone(d.telefone)]

CamposProcessados == {"dre", "data", "hora", "codigo", "nome", "email", "telefone"}

InitValidadores ==
    /\ contas = {}
    /\ contador = ContadorBom
    /\ pedido \in [Procs -> PedidosDeTeste]
    /\ dados = pedido
    /\ pc = [p \in Procs |-> "validadores"]
    /\ siga = [p \in Procs |-> SigaParado]
    /\ ldap = [p \in Procs |-> LdapParado]
    /\ juncao = [p \in Procs |-> SemJuncao]
    /\ ret = [p \in Procs |-> Pendente]
    /\ ops = [p \in Procs |-> <<>>]

\* Every validator on the field as submitted.
Aplicar(p) ==
    /\ pc[p] = "validadores"
    /\ ret' = [ret EXCEPT ![p] = R("Validado", "-", Validados(pedido[p]), <<>>)]
    /\ pc' = [pc EXCEPT ![p] = "validado"]
    /\ UNCHANGED <<contas, contador, pedido, dados, siga, ldap, juncao, ops>>

\* Every validator on its own output, where it gave one.
Reaplicar(p) ==
    /\ pc[p] = "validado"
    /\ LET v == ret[p].arg
           d == [f \in CamposProcessados |->
                    IF v[f].some THEN v[f].val ELSE pedido[p][f]]
           w == Validados(d)
       IN  ret' = [ret EXCEPT ![p] =
                     [@ EXCEPT !.tag = "Revalidado",
                               !.arg2 = [f \in CamposProcessados |->
                                           IF v[f].some THEN w[f] ELSE None]]]
    /\ pc' = [pc EXCEPT ![p] = "fim"]
    /\ UNCHANGED <<contas, contador, pedido, dados, siga, ldap, juncao, ops>>

NextValidadores == \E p \in Procs : Aplicar(p) \/ Reaplicar(p)

SpecValidadores == InitValidadores /\ [][NextValidadores]_vars

(***************************************************************************)
(* Properties                                                              *)
(***************************************************************************)
Indices(p, nomes) == {i \in DOMAIN ops[p] : ops[p][i].op \in nomes}

NumOps(p, nomes) == Cardinality(Indices(p, nomes))

Escreveu(p) == Indices(p, {"modify", "add"}) # {}

\* C1: cadastrar sends a modify of the counters or an add only if, in that
\* call, the portal answered AlunoDoCurso, the probe answered
\* CadastroDisponivel and the submitted name and the official name parse to
\* the same Nome.
C1_EscritaSoAposTudoConferir ==
    \A p \in Procs :
        Escreveu(p) =>
            /\ juncao[p].siga.tag = "AlunoDoCurso"
            /\ juncao[p].ldap.tag = "CadastroDisponivel"
            /\ from_str(pedido[p].nome).ok
            /\ from_str(juncao[p].siga.arg).ok
            /\ from_str(pedido[p].nome).nome = from_str(juncao[p].siga.arg).nome

C1_Witness ==
    \E p \in Procs :
        /\ \E i \in Indices(p, {"modify"}) : ops[p][i].ok
        /\ \E i \in Indices(p, {"add"}) : ops[p][i].ok

\* C2: when the probe answered CadastroRedundante(u), cadastrar has returned
\* CadastroRedundante(u), whatever the portal answered, and has written
\* nothing.
C2_RedundanteVence ==
    \A p \in Procs :
        juncao[p].ldap.tag = "CadastroRedundante" =>
            /\ pc[p] = "fim"
            /\ ret[p] = R("CadastroRedundante", "-", juncao[p].ldap.arg, <<>>)
            /\ ~Escreveu(p)
            /\ NumOps(p, {"conectar"}) = 1

C2_Witness ==
    \E p \in Procs :
        /\ juncao[p].ldap = R("CadastroRedundante", "-", Anas, <<>>)
        /\ juncao[p].siga.tag = "AlunoDoCurso"
        /\ pc[p] = "fim"

CamposRejeitados(d) == ~validar_documento(d).ok \/ ~validar_cadastro(d).ok

ErrosDeCampo ==
    {"DREInvalido", "DataInvalida", "HoraInvalida", "CodigoInvalido",
     "NomeInvalido", "EmailInvalido", "TelefoneInvalido", "SenhaInvalida"}

\* C3: validation comes first: when a validator rejects a field of the
\* request, cadastrar sends no request at all and returns the error of a
\* field; and the portal and the probe are only ever given the validators'
\* outputs.
C3_ValidacaoPrimeiro ==
    \A p \in Procs :
        /\ CamposRejeitados(pedido[p]) =>
              /\ ops[p] = <<>>
              /\ pc[p] = "fim" => ret[p].tag \in ErrosDeCampo
        /\ \A i \in Indices(p, {"siga_post"}) :
              ops[p][i].a = <<processar_dre(pedido[p].dre).val,
                              processar_data(pedido[p].data).val,
                              processar_hora(pedido[p].hora).val,
                              processar_codigo(pedido[p].codigo).val>>
        /\ \A i \in Indices(p, {"search_dre"}) :
              ops[p][i].a = <<processar_dre(pedido[p].dre).val>>

ContadorNumerico(c) == \A l \in samba_ids_leitura(c) : l.ok

\* The k-th value after the one the text s holds.
RECURSIVE Depois(_, _)
Depois(s, k) ==
    IF k = 0 THEN s ELSE Depois(i64_texto(Sucessor(parse_i64(s).v)), k - 1)

SemErroDeRede == \A p \in Procs : \A i \in DOMAIN ops[p] : ops[p][i].r # "erro"

TodosTerminaram == \A p \in Procs : ldap[p].pc = "feito"

\* C4: when the NProc calls of samba_ids, run concurrently on a usable
\* counter entry with every request answered, have all returned, all of
\* them returned Ok, and the uids and the rids they returned are the NProc
\* values after the initial ones, each once, paired in step.
C4_TodasAsChamadasConseguem ==
    (TodosTerminaram /\ SemErroDeRede /\ ContadorNumerico(contador)) =>
        /\ \A p \in Procs : ldap[p].res.tag = "Ids"
        /\ {ldap[p].res.arg : p \in Procs}
              = {Depois(ContadorBom.uidNumber.val, k) : k \in 1..NProc}
        /\ {ldap[p].res.arg2 : p \in Procs}
              = {Depois(ContadorBom.sambaNextRid.val, k) : k \in 1..NProc}
        /\ \A p \in Procs : \E k \in 1..NProc :
              /\ ldap[p].res.arg = Depois(ContadorBom.uidNumber.val, k)
              /\ ldap[p].res.arg2 = Depois(ContadorBom.sambaNextRid.val, k)

\* C5: no two calls of samba_ids that returned Ok returned the same uid,
\* nor the same rid.
C5_IdsDistintos ==
    \A p, q \in Procs :
        (p # q /\ ldap[p].res.tag = "Ids" /\ ldap[q].res.tag = "Ids") =>
            /\ ldap[p].res.arg # ldap[q].res.arg
            /\ ldap[p].res.arg2 # ldap[q].res.arg2

C5_Witness ==
    \E p, q \in Procs :
        p # q /\ ldap[p].res.tag = "Ids" /\ ldap[q].res.tag = "Ids"

Recusados(p) == {i \in Indices(p, {"modify"}) : ops[p][i].r = "recusado"}

AceitosDosOutros(p) ==
    UNION {{<<q, i>> : i \in {j \in Indices(q, {"modify"}) : ops[q][j].ok}} :
              q \in Procs \ {p}}

\* C6: every modify of samba_ids after the first follows a new search of
\* the counter entry, so a call is refused at most once for each modify of
\* another call that the directory accepted.
C6_RetentativaRele ==
    \A p \in Procs :
        /\ \A i \in Indices(p, {"modify"}) :
              (\E j \in Indices(p, {"modify"}) : j < i) =>
                  ops[p][i - 1].op = "search_samba"
        /\ Cardinality(Recusados(p)) <= Cardinality(AceitosDosOutros(p))

ModifiesFalhos(p) == {i \in Indices(p, {"modify"}) : ~ops[p][i].ok}

C7_Comum(p) ==
    /\ NumOps(p, {"modify"}) <= 5
    /\ \A i \in Indices(p, {"modify"}) :
          ops[p][i].ok =>
              /\ i = Len(ops[p])
              /\ ldap[p].pc = "feito"
              /\ ldap[p].res = R("Ids", "-", ops[p][i].a[3], ops[p][i].a[4])
    /\ ldap[p].res.tag = "Ids" => \E i \in Indices(p, {"modify"}) : ops[p][i].ok

\* C7 as claimed: at most 5 modifies a call, the call returns at the first
\* one accepted, and it returns ErroSamba exactly when 5 modifies failed.
C7_Original ==
    \A p \in Procs :
        /\ C7_Comum(p)
        /\ ldap[p].pc = "feito" =>
              (ldap[p].res = ErroLdap("ErroSamba")
                  <=> Cardinality(ModifiesFalhos(p)) = 5)

\* The text s is that of the largest i64.
EhI64Max(s) == parse_i64(s).ok /\ parse_i64(s).v = I64(FALSE, I64Max)

\* A counter has held the largest i64: the entry holds it, or a modify that
\* the directory accepted has replaced it.
MaximoVisto ==
    \/ contador.uidNumber.some /\ EhI64Max(contador.uidNumber.val)
    \/ contador.sambaNextRid.some /\ EhI64Max(contador.sambaNextRid.val)
    \/ \E q \in Procs : \E i \in Indices(q, {"modify"}) :
          ops[q][i].ok /\ (EhI64Max(ops[q][i].a[1]) \/ EhI64Max(ops[q][i].a[2]))

SambaEmPanico(p) == ldap[p].pc = "feito" /\ ldap[p].res.tag = "Panico"

\* C7 as amended: ErroSamba is returned exactly when 5 modifies failed, or
\* when the search answered and gave no usable pair of counters, and then
\* no modify was sent; a call that does not return panicked on a counter
\* at the largest i64, before any modify.
C7_TentativasLimitadas ==
    \A p \in Procs :
        /\ C7_Comum(p)
        /\ ldap[p].pc = "feito" /\ ~SambaEmPanico(p) =>
              (ldap[p].res = ErroLdap("ErroSamba")
                  <=> \/ Cardinality(ModifiesFalhos(p)) = 5
                      \/ /\ NumOps(p, {"modify"}) = 0
                         /\ \E i \in Indices(p, {"search_samba"}) : ops[p][i].ok)
        /\ SambaEmPanico(p) =>
              /\ NumOps(p, {"modify"}) = 0
              /\ \E i \in Indices(p, {"search_samba"}) : ops[p][i].ok
              /\ MaximoVisto

C7_Witness ==
    \E p \in Procs :
        /\ ldap[p].pc = "feito"
        /\ ldap[p].res = ErroLdap("ErroSamba")
        /\ Cardinality(Recusados(p)) = 5

\* C8: when rodar_ldap has returned, every connection it opened has been
\* sent an unbind.
C8_SessaoSempreDesligada ==
    \A p \in Procs :
        ldap[p].pc \in {"-", "feito"} =>
            Cardinality({i \in Indices(p, {"conectar"}) : ops[p][i].ok})
                = NumOps(p, {"unbind"})

\* C9: cadastrar is past the join only when both futures have completed,
\* and when either of them ended in an error cadastrar has returned an
\* error and written nothing.
C9_JoinEsperaAmbos ==
    \A p \in Procs :
        /\ pc[p] \in {"cadastro", "fim"} /\ validar_documento(pedido[p]).ok =>
              /\ siga[p].pc = "feito"
              /\ juncao[p].siga = siga[p].res
              /\ juncao[p].siga.tag # "Pendente"
              /\ juncao[p].ldap.tag # "Pendente"
              /\ ldap[p].modo = "consulta" => ldap[p].pc = "feito"
        /\ (juncao[p].siga.tag = "ConsultaErro" \/ juncao[p].ldap.tag = "ErroLdap") =>
              /\ pc[p] = "fim"
              /\ ret[p].tag \in {"ErroNaConsulta", "ErroNoCadastro", "CadastroRedundante"}
              /\ ~Escreveu(p)

C9_Witness ==
    \E p \in Procs :
        /\ pc[p] = "fim"
        /\ juncao[p].siga = ConsultaErro("SemViewState")
        /\ juncao[p].ldap.tag = "CadastroDisponivel"
        /\ \E i, j \in DOMAIN ops[p] :
              i < j /\ ops[p][i].op = "siga_get" /\ ops[p][j].op = "search_uid"

\* C10: no failure of a branch is swallowed: when cadastrar has returned, a
\* failure of the portal was returned as ErroNaConsulta of that failure, and
\* a failure of the probe as ErroNoCadastro of that failure.
C10_NenhumaFalhaEngolida ==
    \A p \in Procs :
        pc[p] = "fim" =>
            /\ juncao[p].siga.tag = "ConsultaErro" =>
                  ret[p] = R("ErroNaConsulta", juncao[p].siga.sub, <<>>, <<>>)
            /\ juncao[p].ldap.tag = "ErroLdap" =>
                  ret[p] = R("ErroNoCadastro", juncao[p].ldap.sub, juncao[p].ldap.arg, <<>>)

NomeSa == <<"A","N","A"," ","S","A">>

NomeLimaSa == <<"A","N","A"," ","L","I","M","A"," ","S","A">>

Conferido(p) ==
    /\ pc[p] = "fim"
    /\ juncao[p].ldap.tag = "CadastroDisponivel"
    /\ juncao[p].siga.tag = "AlunoDoCurso"

\* C12: when the probe answered CadastroDisponivel and the portal
\* AlunoDoCurso with the official name, cadastrar returned NomesDiferentes
\* of the two names exactly when they do not parse to the same Nome:
\* "ana de Sá" against "ANA LIMA SA" is refused and against "ANA SA" is not.
C12_NomesDiferentesSoQuandoDiferem ==
    \A p \in Procs :
        /\ Conferido(p) =>
              /\ ret[p] = R("NomesDiferentes", "-", pedido[p].nome, juncao[p].siga.arg)
                    <=> from_str(pedido[p].nome) # from_str(juncao[p].siga.arg)
              /\ (pedido[p].nome = PedidoBase.nome /\ juncao[p].siga.arg = NomeSa)
                    => ret[p].tag # "NomesDiferentes"
              /\ (pedido[p].nome = PedidoBase.nome /\ juncao[p].siga.arg = NomeLimaSa)
                    => ret[p].tag = "NomesDiferentes"
        /\ ret[p].tag = "NomesDiferentes" => Conferido(p)

C12_Witness ==
    \E p \in Procs :
        /\ Conferido(p)
        /\ pedido[p].nome = PedidoBase.nome
        /\ juncao[p].siga.arg = NomeLimaSa
        /\ ret[p] = R("NomesDiferentes", "-", PedidoBase.nome, NomeLimaSa)

CriadasPor(p) == {e \in contas : e.criador = p}

\* C13: when the probe answered CadastroDisponivel, a portal answer of
\* Desconhecido made cadastrar return DocumentoInvalido, and an answer of
\* AlunoOutroCurso made it return AlunoOutroCurso of that program; nothing
\* was written and no entry was created.
C13_DocumentoRecusado ==
    \A p \in Procs :
        juncao[p].ldap.tag = "CadastroDisponivel" =>
            /\ juncao[p].siga.tag = "Desconhecido" =>
                  /\ pc[p] = "fim"
                  /\ ret[p] = R("DocumentoInvalido", "-", <<>>, <<>>)
                  /\ ~Escreveu(p)
                  /\ CriadasPor(p) = {}
            /\ juncao[p].siga.tag = "AlunoOutroCurso" =>
                  /\ pc[p] = "fim"
                  /\ ret[p] = R("AlunoOutroCurso", "-", juncao[p].siga.arg2, <<>>)
                  /\ ~Escreveu(p)
                  /\ CriadasPor(p) = {}

C13_Witness ==
    \E p \in Procs :
        /\ juncao[p].ldap = R("CadastroDisponivel", "-", Anas, <<>>)
        /\ juncao[p].siga = R("AlunoOutroCurso", "-", NomeSa, Fisica)
        /\ ret[p] = R("AlunoOutroCurso", "-", Fisica, <<>>)

\* C14: when cadastrar returned Ok(u), u is the username of the
\* CadastroDisponivel the probe answered in that call, and the directory
\* accepted exactly one add of that call, which created the entry whose
\* uid is u.
C14_OkDevolveUsernameDaConsulta ==
    \A p \in Procs :
        (pc[p] = "fim" /\ ret[p].tag = "Ok") =>
            /\ juncao[p].ldap = R("CadastroDisponivel", "-", ret[p].arg, <<>>)
            /\ Cardinality({i \in Indices(p, {"add"}) : ops[p][i].ok}) = 1
            /\ \A i \in Indices(p, {"add"}) : ops[p][i].a[1] = ret[p].arg
            /\ Cardinality(CriadasPor(p)) = 1
            /\ \A e \in CriadasPor(p) :
                  e.ou = "alunos" /\ e.rdn = ret[p].arg /\ e.uid = Some(ret[p].arg)

C14_Witness ==
    \E p \in Procs :
        /\ pc[p] = "fim"
        /\ ret[p] = R("Ok", "-", Anasa, <<>>)
        /\ \E e \in contas : e.criador = p /\ e.uid = Some(Anasa)

BuscasUid(p) == SelectSeq(ops[p], LAMBDA e : e.op = "search_uid")

\* What the closure of the probe returned, while its session is there and
\* after the join.
RetornoDaConsulta(p) ==
    IF ldap[p].modo = "consulta" THEN ldap[p].ret ELSE juncao[p].ldap

Candidatos(p) == usernames(from_str(pedido[p].nome).nome)

Ocupado(u, p) == consulta_usuario_existe(u, contas \ CriadasPor(p))

\* The search of consulta_dre of p was answered and matched no entry, so
\* achar_nome_livre was called.
AcharNomeChamado(p) ==
    \E i \in Indices(p, {"search_dre"}) :
        /\ ops[p][i].ok
        /\ \A e \in contas \ CriadasPor(p) : e.dre # Some(ops[p][i].a[1])

\* C15: achar_nome_livre searches the candidates of Nome::usernames in
\* their order; it returns the first the directory reports as free, all
\* before it having been reported taken; it returns UsuarioDificil exactly
\* when every candidate was searched and reported taken; and a search that
\* fails ends it with that error.
C15_PrimeiroUsernameLivre ==
    \A p \in Procs :
        LET S == BuscasUid(p)
            r == RetornoDaConsulta(p)
            C == Candidatos(p)
            n == from_str(pedido[p].nome)
        IN  /\ S # <<>> => n.ok /\ Len(S) <= Len(C)
            /\ \A i \in DOMAIN S :
                  /\ S[i].a = <<C[i]>>
                  /\ i < Len(S) => S[i].ok /\ Ocupado(C[i], p)
            /\ r.tag = "CadastroDisponivel" =>
                  /\ S # <<>> /\ S[Len(S)].ok
                  /\ r.arg = C[Len(S)]
                  /\ ~Ocupado(r.arg, p)
            /\ r = ErroLdap("UsuarioDificil") <=>
                  /\ AcharNomeChamado(p)
                  /\ ldap[p].modo = "consulta" => ldap[p].pc \in {"unbind", "feito"}
                  /\ n.ok
                  /\ Len(S) = Len(C)
                  /\ \A i \in DOMAIN S : S[i].ok /\ Ocupado(C[i], p)
                  /\ C = <<>> => ldap[p].modo = "consulta"
            /\ (S # <<>> /\ ~S[Len(S)].ok) =>
                  (ldap[p].modo = "consulta" => ldap[p].ret = ErroLdap("ErroLdap"))

C15_Witness ==
    \E p \in Procs :
        /\ ldap[p].modo = "consulta"
        /\ ldap[p].ret = R("CadastroDisponivel", "-", Anasa, <<>>)
        /\ Len(BuscasUid(p)) = 2

C15_WitnessDificil ==
    \E p \in Procs :
        /\ ldap[p].modo = "consulta"
        /\ ldap[p].ret = ErroLdap("UsuarioDificil")
        /\ Len(BuscasUid(p)) = 2

\* C11: after a call of cadastrar for an identifier returned Ok(u), the
\* probe of every later call for that identifier answers
\* CadastroRedundante(u) when its searches are answered, and the later call
\* returns CadastroRedundante(u) when its probe did not fail.
C11_SegundoCadastroRedundante ==
    \A p, q \in Procs :
        (p < q /\ ret[p].tag = "Ok" /\ pedido[q].dre = pedido[p].dre) =>
            /\ RetornoDaConsulta(q).tag \in {"CadastroDisponivel", "CadastroRedundante"} =>
                  RetornoDaConsulta(q) = R("CadastroRedundante", "-", ret[p].arg, <<>>)
            /\ (pc[q] = "fim" /\ juncao[q].ldap.tag # "ErroLdap") =>
                  ret[q] = R("CadastroRedundante", "-", ret[p].arg, <<>>)

LetrasDe(raw) == (CHOOSE e \in NomesDeTeste : e.raw = raw).letras

Primeiros(s, n) == SubSeq(s, 1, IF Len(s) < n THEN Len(s) ELSE n)

EhLetra(c) ==
    is_ascii_lowercase(c) \/ is_ascii_uppercase(c) \/ EhAcentuada(c) \/ c = "eszett"

\* The name has a character that is neither a letter nor a space.
TemEstranho(raw) == \E i \in DOMAIN raw : ~EhLetra(raw[i]) /\ raw[i] # " "

\* The combination of a Nome in which choice[i] tells whether the i-th
\* surname token is written in full.
Combinacao(nome, choice) ==
    nome[1] \o Concat([i \in 1..(Len(nome) - 1) |->
                          IF choice[i] THEN nome[i + 1] ELSE <<nome[i + 1][1]>>])

Combinacoes(nome) ==
    {Combinacao(nome, choice) : choice \in [1..(Len(nome) - 1) -> BOOLEAN]}

JoaoCarlos == <<"J","O","A","O"," ","C","A","R","L","O","S"," ","P","E","R","E","I","R","A",
                " ","D","A"," ","S","I","L","V","A">>

UsernamesJoaoCarlos ==
    << <<"j","o","a","o","c","p","s">>,
       <<"j","o","a","o","c","p","s","i","l","v","a">>,
       <<"j","o","a","o","c","p","e","r","e","i","r","a","s">>,
       <<"j","o","a","o","c","p","e","r","e","i","r","a","s","i","l","v","a">>,
       <<"j","o","a","o","c","a","r","l","o","s","p","s">>,
       <<"j","o","a","o","c","a","r","l","o","s","p","s","i","l","v","a">>,
       <<"j","o","a","o","c","a","r","l","o","s","p","e","r","e","i","r","a","s">> >>

Gerou(p) == pc[p] = "fim" /\ ret[p].tag = "Nome"

\* C16: the usernames of a Nome are the combinations of initial and full
\* surname tokens shorter than 20 characters, each string once, and those
\* of "JOAO CARLOS PEREIRA DA SILVA" are the seven of the documentation in
\* their order.
C16_UsernamesSemRepeticao ==
    \A p \in Procs :
        Gerou(p) =>
            LET U == ldap[p].cands
            IN  /\ Range(U) = {u \in Combinacoes(ret[p].arg) : Len(u) < 20}
                /\ \A i, j \in DOMAIN U : i # j => U[i] # U[j]
                /\ pedido[p].nome = JoaoCarlos => U = UsernamesJoaoCarlos

Parseou(p) == pc[p] # "nome"

\* C17: two names that are Nomes parse to the same Nome exactly when
\* their letter tokens, particles left out, are the same in each of the 10
\* positions a Nome has: case, diacritics, cedilla and particles do not
\* count, any other difference of a letter token does.
C17_IgualdadeCanonica ==
    \A p, q \in Procs :
        (Parseou(p) /\ Parseou(q) /\ ret[p].tag = "Nome" /\ ret[q].tag = "Nome") =>
            (ret[p].arg = ret[q].arg
                <=> Primeiros(LetrasDe(pedido[p].nome), 10)
                      = Primeiros(LetrasDe(pedido[q].nome), 10))

\* C18: a name with a character that is neither a letter nor a space
\* parses to CaracterEstranho, however many words it has; a name of letters
\* and spaces with fewer than 2 words that are not particles parses to
\* NomeCurto.
C18_CaracterEstranhoRejeitado ==
    \A p \in Procs :
        Parseou(p) =>
            /\ TemEstranho(pedido[p].nome) =>
                  ret[p] = R("NomeErro", "CaracterEstranho", <<>>, <<>>)
            /\ (~TemEstranho(pedido[p].nome) /\ Len(LetrasDe(pedido[p].nome)) < 2) =>
                  ret[p] = R("NomeErro", "NomeCurto", <<>>, <<>>)

\* C19: a Nome has from 2 to 10 tokens, each a non-empty string of
\* lowercase ASCII letters and none a particle; a name of letters with
\* more than 10 words that are not particles parses to the first 10.
C19_InvarianteDoNome ==
    \A p \in Procs :
        Parseou(p) =>
            /\ ret[p].tag = "Nome" =>
                  /\ Len(ret[p].arg) \in 2..10
                  /\ \A i \in DOMAIN ret[p].arg :
                        /\ ret[p].arg[i] # <<>>
                        /\ \A j \in DOMAIN ret[p].arg[i] :
                              is_ascii_lowercase(ret[p].arg[i][j])
                        /\ ret[p].arg[i] \notin
                              { <<"d","e">>, <<"d","a">>, <<"d","o">>,
                                <<"d","o","s">>, <<"d","a","s">> }
            /\ (~TemEstranho(pedido[p].nome) /\ Len(LetrasDe(pedido[p].nome)) > 10) =>
                  ret[p] = R("Nome", "-", Primeiros(LetrasDe(pedido[p].nome), 10), <<>>)

C19_Witness ==
    \E p \in Procs :
        /\ Len(LetrasDe(pedido[p].nome)) = 11
        /\ ret[p].tag = "Nome"
        /\ Len(ret[p].arg) = 10

\* C20: every validator that rewrites a field gives, on its own output,
\* that output again.
C20_ValidadoresIdempotentes ==
    \A p \in Procs :
        ret[p].tag = "Revalidado" =>
            \A f \in CamposProcessados :
                ret[p].arg[f].some => ret[p].arg2[f] = ret[p].arg[f]

AddRecusado(p) == \E i \in Indices(p, {"add"}) : ops[p][i].r = "recusado"

\* What cadastrar returns when the bind of the session of cadastrar_usuario
\* is refused.
RetornoDeBindRecusado(p) ==
    R("ErroNoCadastro", BindRecusado(ldap[p]).res.sub, BindRecusado(ldap[p]).res.arg, <<>>)

\* C21: when the directory refused the add of a call, what the call
\* returns, and the response made of it, differ from those of a call whose
\* session could not be bound.
C21_ConflitoDistinto ==
    \A p \in Procs :
        (pc[p] = "fim" /\ AddRecusado(p)) =>
            /\ ret[p].tag = "ErroNoCadastro"
            /\ ret[p] # RetornoDeBindRecusado(p)
            /\ resposta(ret[p]) # resposta(RetornoDeBindRecusado(p))

\* The counter entry c after n modifies of samba_ids were accepted.
RECURSIVE Avancar(_, _)
Avancar(c, n) ==
    IF n = 0 THEN c
    ELSE LET l == CHOOSE x \in samba_ids_leitura(c) : x.ok
         IN  Avancar([c EXCEPT !.uidNumber = Some(l.prox_samba_uid),
                               !.sambaNextRid = Some(l.prox_samba_rid)], n - 1)

TodosRespondidos(p) == \A i \in DOMAIN ops[p] : ops[p][i].r # "erro"

\* C22: when a call of samba_ids whose requests were all answered returned
\* ErroSamba, the directory accepted no modify of that call, and the
\* counter entry holds what it held at the start, advanced once for each
\* modify of the other calls that the directory accepted.
C22_FalhaSemEfeito ==
    \A p \in Procs :
        (ldap[p].pc = "feito" /\ ldap[p].res = ErroLdap("ErroSamba")
         /\ TodosRespondidos(p)) =>
            /\ \A i \in Indices(p, {"modify"}) : ops[p][i].r = "recusado"
            /\ \E c \in ContadoresIniciais :
                  /\ AceitosDosOutros(p) # {} => \E l \in samba_ids_leitura(c) : l.ok
                  /\ contador = Avancar(c, Cardinality(AceitosDosOutros(p)))

C22_Witness ==
    \E p \in Procs :
        /\ ldap[p].pc = "feito"
        /\ ldap[p].res = ErroLdap("ErroSamba")
        /\ TodosRespondidos(p)
        /\ NumOps(p, {"modify"}) = 5
        /\ contador = Avancar(ContadorBom, 1)

\* The entries the filter (dre=...) of consulta_dre matches for the call p.
AchadasPorDre(p) ==
    {e \in contas : \E i \in Indices(p, {"search_dre"}) : e.dre = Some(ops[p][i].a[1])}

DreConsultado(p) == \E i \in Indices(p, {"search_dre"}) : ops[p][i].ok

\* C23: once the search of consulta_dre was answered: with no matching
\* entry the probe returns neither CadastroRedundante nor FalhaUid and goes
\* on to the search of a username; with a matching entry the closure has
\* returned CadastroRedundante of the uid of a matching entry, or FalhaUid
\* for a matching entry without uid, and no username was searched.
C23_TresCasosDaConsultaDre ==
    \A p \in Procs :
        DreConsultado(p) =>
            /\ AchadasPorDre(p) = {} =>
                  /\ RetornoDaConsulta(p).tag # "CadastroRedundante"
                  /\ RetornoDaConsulta(p) # ErroLdap("FalhaUid")
                  /\ (from_str(pedido[p].nome).ok /\ Candidatos(p) # <<>>) =>
                        \/ BuscasUid(p) # <<>>
                        \/ ldap[p].modo = "consulta" /\ ldap[p].pc = "achar_nome"
                  /\ (from_str(pedido[p].nome).ok /\ Candidatos(p) = <<>>) =>
                        /\ BuscasUid(p) = <<>>
                        /\ RetornoDaConsulta(p) = ErroLdap("UsuarioDificil")
            /\ AchadasPorDre(p) # {} =>
                  /\ BuscasUid(p) = <<>>
                  /\ ldap[p].modo = "consulta"
                  /\ ldap[p].pc \in {"unbind", "feito"}
                  /\ \E e \in AchadasPorDre(p) :
                        ldap[p].ret = IF e.uid.some
                                      THEN R("CadastroRedundante", "-", e.uid.val, <<>>)
                                      ELSE ErroLdap("FalhaUid")

C23_Witness ==
    \E p \in Procs :
        /\ DreConsultado(p)
        /\ \E e \in AchadasPorDre(p) : ~e.uid.some
        /\ ldap[p].ret = ErroLdap("FalhaUid")
        /\ pc[p] = "fim"

Classificou(p) == siga[p].pc = "feito"

\* C24: the classification of the response to the POST: both markers or
\* neither gives CombinacaoInvalida; the invalid marker alone gives
\* Desconhecido whatever fields the page shows; the valid marker alone
\* gives NumeroEstranhoDeItens unless the page shows exactly 3 fields, and
\* with 3 fields AlunoDoCurso of the first when the third is exactly the
\* target program and AlunoOutroCurso of the first and the third otherwise.
C24_ClassificacaoDaResposta ==
    \A p \in Procs :
        Classificou(p) =>
            LET pg == siga[p].pagina
                res == siga[p].res
            IN  /\ pg.valido = pg.invalido => res = ConsultaErro("CombinacaoInvalida")
                /\ (pg.invalido /\ ~pg.valido) => res = R("Desconhecido", "-", <<>>, <<>>)
                /\ (pg.valido /\ ~pg.invalido /\ Len(pg.itens) # 3) =>
                      res = ConsultaErro("NumeroEstranhoDeItens")
                /\ (pg.valido /\ ~pg.invalido /\ Len(pg.itens) = 3) =>
                      /\ pg.itens[3] = CursoAlvo =>
                            res = R("AlunoDoCurso", "-", pg.itens[1], <<>>)
                      /\ pg.itens[3] # CursoAlvo =>
                            res = R("AlunoOutroCurso", "-", pg.itens[1], pg.itens[3])

C24_Witness ==
    \E p, q \in Procs :
        /\ Classificou(p) /\ Classificou(q)
        /\ siga[p].pagina.itens = << NomeSa, Rg, CursoMinusculo >>
        /\ siga[p].res = R("AlunoOutroCurso", "-", NomeSa, CursoMinusculo)
        /\ siga[q].pagina = Pagina(FALSE, TRUE, << NomeSa, Rg, CursoAlvo >>)
        /\ siga[q].res.tag = "Desconhecido"

\* What processar_data gave for the date of the request of p.
DataProcessada(p) == ret[p].arg.data

EhDataCanonica(s) ==
    /\ Len(s) = 10
    /\ s[3] = "/" /\ s[6] = "/"
    /\ \A i \in {1, 2, 4, 5, 7, 8, 9, 10} : is_ascii_digit(s[i])

\* The date of the request of p is d, and processar_data has been applied.
DataDe(p, d) == ret[p].tag \in {"Validado", "Revalidado"} /\ pedido[p].data = d

\* C28: processar_data returns for every date of the two forms, and what
\* it returns for an accepted date is a 2-digit day, "/", a 2-digit month,
\* "/" and a 4-digit year, the year being the year given plus 2000 when
\* that is below 1000: "1/2/25" gives "01/02/2025", "1/1/100" gives
\* "01/01/2100", "31/12/1000" and "01022025" keep their year, and
\* "25 12 02", "1 1 2002" and a year of 5 digits are rejected.
C28_DataCanonica ==
    \A p \in Procs :
        ret[p].tag \in {"Validado", "Revalidado"} =>
            /\ ~Panicou(DataProcessada(p))
            /\ DataProcessada(p).some => EhDataCanonica(DataProcessada(p).val)
            /\ DataDe(p, <<"1","/","2","/","2","5">>) =>
                  DataProcessada(p) = Some(<<"0","1","/","0","2","/","2","0","2","5">>)
            /\ DataDe(p, <<"1","/","1","/","1","0","0">>) =>
                  DataProcessada(p) = Some(<<"0","1","/","0","1","/","2","1","0","0">>)
            /\ DataDe(p, <<"1"," ","/"," ","2"," ","/"," ","9","9","9">>) =>
                  DataProcessada(p) = Some(<<"0","1","/","0","2","/","2","9","9","9">>)
            /\ DataDe(p, <<"3","1","/","1","2","/","1","0","0","0">>) =>
                  DataProcessada(p) = Some(<<"3","1","/","1","2","/","1","0","0","0">>)
            /\ DataDe(p, <<"0","1","0","2","2","0","2","5">>) =>
                  DataProcessada(p) = Some(<<"0","1","/","0","2","/","2","0","2","5">>)
            /\ DataDe(p, <<"0","1","0","2"," ","2","0","2","5">>) =>
                  DataProcessada(p) = Some(<<"0","1","/","0","2","/","2","0","2","5">>)
            /\ DataDe(p, <<"2","5"," ","1","2"," ","0","2">>) => DataProcessada(p) = None
            /\ DataDe(p, <<"1"," ","1"," ","2","0","0","2">>) => DataProcessada(p) = None
            /\ DataDe(p, <<"1","/","2","/","1","2","3","4","5">>) => DataProcessada(p) = None
            /\ DataDe(p, <<"1","2","3","/","1","/","2","5">>) => DataProcessada(p) = None

\* The salt a stored hash of the right form carries.
SalDe(hash) ==
    LET b == base64_decode(strip_prefix(hash, PrefixoSsha).val).bytes
    IN  SubSeq(b, TamanhoDigest + 1, Len(b))

\* C25: compare_ssha of a password and the hash hash_ssha made of it is
\* true whatever the salt drawn, and compare_ssha of another password whose
\* digest with that salt differs is false.
C25_HashConfere ==
    \A p \in Procs :
        ret[p].tag = "Comparado" =>
            /\ ret[p].arg \in {hash_ssha_with_salt(dados[p].senha, salt) : salt \in Sais}
            /\ ret[p].arg2 = dados[p].senha => ret[p].sub = "true"
            /\ (sha1_passwd_salt(ret[p].arg2, SalDe(ret[p].arg))
                  # sha1_passwd_salt(dados[p].senha, SalDe(ret[p].arg)))
                  => ret[p].sub = "false"

C25_Witness ==
    \E p \in Procs :
        /\ ret[p].tag = "Comparado"
        /\ dados[p].senha = <<"1","2","3","4","5","6","7","8">>
        /\ ret[p].arg = <<"{","S","S","H","A","}","G","j","O","X","H","K","P","c","M","V",
                          "v","C","3","A","A","1","a","+","1","2","i","U","H","h","B","a",
                          "U","B","A","g","M","E">>
        /\ ret[p].arg2 = dados[p].senha
        /\ ret[p].sub = "true"

C25_WitnessOutro ==
    \E p \in Procs :
        /\ ret[p].tag = "Comparado"
        /\ ret[p].arg2 # dados[p].senha
        /\ ret[p].sub = "false"

\* C26: compare_ssha of any password and a stored hash in which one byte
\* was changed, in the prefix, in the digest part or in the salt part,
\* returns false.
C26_HashMutadoFalso ==
    \A p \in Procs : ret[p].tag = "ComparadoMutado" => ret[p].sub = "false"

\* The seconds between the clock reading of p and its kickoff time.
OffsetDe(p) == i64_valor(parse_i64(ret[p].arg2.samba_kickoff).v) - ret[p].arg

\* C27 as claimed: the offset added to the clock for sambaKickoffTime and
\* sambaPwdMustChange is fewer than 42 whole days.
C27_Original ==
    \A p \in Procs :
        ret[p].tag = "Tempos" => OffsetDe(p) \div (24 * 60 * 60) < 42

\* C27 as amended: the offset is 311,040,000 seconds, which is 3600 whole
\* days and no more: between 9 and 10 years of 365 days.
C27_OffsetDeDezAnos ==
    \A p \in Procs :
        ret[p].tag = "Tempos" =>
            /\ ret[p].arg2.samba_today = i64_to_string(ret[p].arg)
            /\ OffsetDe(p) = 311040000
            /\ OffsetDe(p) = 3600 * (24 * 60 * 60)
            /\ OffsetDe(p) > 9 * 365 * (24 * 60 * 60)
            /\ OffsetDe(p) < 10 * 365 * (24 * 60 * 60)

C27_Witness ==
    \E p \in Procs :
        /\ ret[p].tag = "Tempos"
        /\ ret[p].arg = 1761696000
        /\ ret[p].arg2.samba_kickoff = <<"2","0","7","2","7","3","6","0","0","0">>

\* The last modify of p that the directory accepted before its operation j.
ModifyAntes(p, j) ==
    LET aceitos == {i \in Indices(p, {"modify"}) : i < j /\ ops[p][i].ok}
    IN  IF aceitos = {} THEN 0
        ELSE CHOOSE i \in aceitos : \A k \in aceitos : k <= i

\* The accepted add of p that created the entry e (0 when there is none).
AddDe(p, e) ==
    LET adds == {j \in Indices(p, {"add"}) : ops[p][j].ok /\ ops[p][j].a[1] = e.rdn}
    IN  IF adds = {} THEN 0 ELSE CHOOSE j \in adds : TRUE

\* The entry e carries the ids of the modify <<samba_uid, samba_rid,
\* prox_samba_uid, prox_samba_rid>>, each the value read plus 1.
IdsDaEntrada(e, m) ==
    /\ parse_i64(m[1]).ok /\ parse_i64(m[2]).ok
    /\ m[3] = i64_texto(Sucessor(parse_i64(m[1]).v))
    /\ m[4] = i64_texto(Sucessor(parse_i64(m[2]).v))
    /\ e.uidNumber = m[3]
    /\ e.sambaSID = SambaSidPrefix \o m[4]

EntradaComIdsDaSessao ==
    \A p \in Procs : \A e \in CriadasPor(p) :
        /\ AddDe(p, e) # 0
        /\ ModifyAntes(p, AddDe(p, e)) # 0
        /\ IdsDaEntrada(e, ops[p][ModifyAntes(p, AddDe(p, e))].a)

\* A step in which the directory accepts a modify of p: the counter entry
\* held the values p read, and holds the values p returns.
ContadorAposModify ==
    \A p \in Procs :
        (/\ Len(ops'[p]) = Len(ops[p]) + 1
         /\ ops'[p][Len(ops'[p])].op = "modify"
         /\ ops'[p][Len(ops'[p])].ok) =>
            LET m == ops'[p][Len(ops'[p])].a
            IN  /\ contador.uidNumber = Some(m[1])
                /\ contador.sambaNextRid = Some(m[2])
                /\ contador'.uidNumber = Some(m[3])
                /\ contador'.sambaNextRid = Some(m[4])
                /\ ldap'[p].pc = "add" =>
                      /\ ldap'[p].prox_samba_uid = m[3]
                      /\ ldap'[p].prox_samba_rid = m[4]

\* C29: the entry cadastrar_usuario adds has for uidNumber the uid, and for
\* sambaSID the prefix followed by the rid, that samba_ids returned in the
\* same session; each is the value read from the counter entry plus 1, and
\* the value the counter entry holds right after the accepted modify.
C29_EntradaComIdsAlocados ==
    /\ []EntradaComIdsDaSessao
    /\ [][ContadorAposModify]_vars

C29_Witness ==
    \E p, q \in Procs :
        /\ p # q
        /\ \E e \in CriadasPor(p) :
              /\ e.uidNumber = <<"9">>
              /\ e.sambaSID = <<"S", "-", "1", "-", "1", "1">>
        /\ \E i \in Indices(q, {"modify"}) :
              ops[q][i].ok /\ ops[q][i].a = <<<<"7">>, <<"9">>, <<"8">>, <<"1", "0">>>>
        /\ contador.uidNumber = Some(<<"9">>)

\* The candidate the probe of p found free, when it found one.
CandidatoDe(p) ==
    IF juncao[p].ldap.tag = "CadastroDisponivel" THEN Some(juncao[p].ldap.arg) ELSE None

AddsAceitos(p, username) ==
    {i \in Indices(p, {"add"}) : ops[p][i].ok /\ ops[p][i].a[1] = username}

\* C30: no two calls of cadastrar that return Ok return the same username;
\* of two calls whose probes found the same candidate free, the directory
\* accepts the add of at most one, and once both have returned at least one
\* has returned an error.
C30_UsernamesUnicos ==
    \A p, q \in Procs :
        p # q =>
            /\ (ret[p].tag = "Ok" /\ ret[q].tag = "Ok") => ret[p].arg # ret[q].arg
            /\ (CandidatoDe(p).some /\ CandidatoDe(p) = CandidatoDe(q)) =>
                  /\ AddsAceitos(p, CandidatoDe(p).val) = {}
                     \/ AddsAceitos(q, CandidatoDe(p).val) = {}
                  /\ (pc[p] = "fim" /\ pc[q] = "fim") =>
                        \/ ret[p].tag = "ErroNoCadastro"
                        \/ ret[q].tag = "ErroNoCadastro"

C30_Witness ==
    \E p, q \in Procs :
        /\ p # q
        /\ CandidatoDe(p).some /\ CandidatoDe(p) = CandidatoDe(q)
        /\ ret[p] = R("Ok", "-", CandidatoDe(p).val, <<>>)
        /\ AddRecusado(q)
        /\ ret[q].tag = "ErroNoCadastro"

\* Two calls that ran one after the other both returned Ok.
C30_WitnessDoisOk ==
    \E p, q \in Procs :
        /\ p # q
        /\ ret[p].tag = "Ok" /\ ret[q].tag = "Ok"
        /\ CandidatoDe(p) # CandidatoDe(q)

\* C31: of the calls of cadastrar submitted with one enrollment identifier
\* at most one returns Ok, and the directory never holds two entries of
\* this program with the same dccDRE.
C31_UmCadastroPorDre ==
    /\ \A p, q \in Procs :
          (p # q /\ pedido[p].dre = pedido[q].dre) =>
              ~(ret[p].tag = "Ok" /\ ret[q].tag = "Ok")
    /\ \A e, f \in contas : e.dccDRE = f.dccDRE => e = f

\* The modifies of the counter entry that the directory accepted.
Incrementos ==
    UNION {{<<p, i>> : i \in {j \in Indices(p, {"modify"}) : ops[p][j].ok}} : p \in Procs}

\* The entries this program added.
Criadas == UNION {CriadasPor(p) : p \in Procs}

\* No call is between its accepted modify and its add.
NinguemEntreModifyEAdd == \A p \in Procs : ldap[p].pc # "add"

\* C32: whenever no call is between its counter modify and its add, the
\* increments applied to the counters are as many as the entries created.
C32_IncrementosSoDeContasCriadas ==
    NinguemEntreModifyEAdd => Cardinality(Incrementos) = Cardinality(Criadas)

AddAceitoDe(p) == \E i \in Indices(p, {"add"}) : ops[p][i].ok

\* C33: a call of cadastrar whose add the directory accepted returns Ok
\* with the username; a call that returns an error created no entry.
C33_AddAceitoDevolveOk ==
    \A p \in Procs :
        pc[p] = "fim" =>
            /\ AddAceitoDe(p) => (ret[p].tag = "Ok" /\ ret[p].arg = ldap[p].username)
            /\ ret[p].tag # "Ok" => CriadasPor(p) = {}

\* The five fields of the request of p are accepted by their validators.
CamposAceitos(p) ==
    /\ processar_dre(pedido[p].dre).some
    /\ processar_nome(pedido[p].nome).some
    /\ processar_email(pedido[p].email).some
    /\ processar_telefone(pedido[p].telefone).some
    /\ validar_senha(pedido[p].senha)

\* The entry e holds the validators' outputs for the request of p: the
\* identifier, the email and the phone as they are, the first word of the
\* name in cn and the other words in sn.
EntradaCanonica(e, p) ==
    LET nome == split_whitespace(processar_nome(pedido[p].nome).val)
    IN  /\ e.dccDRE = Some(processar_dre(pedido[p].dre).val)
        /\ e.emailExterno = processar_email(pedido[p].email).val
        /\ e.telephoneNumber = processar_telefone(pedido[p].telefone).val
        /\ e.cn = nome[1]
        /\ e.sn = Join(Tail(nome), <<" ">>)

\* C34 as claimed: a call of cadastrar or of
\* cadastrar_sem_verificar_documento issues a counter modify or an add only
\* when the identifier, name, email, phone and password of its request are
\* accepted by their validators, and the entry it adds holds the
\* validators' outputs, the name validator's output in gecos.
C34_Original ==
    \A p \in Procs :
        /\ Escreveu(p) => CamposAceitos(p)
        /\ \A e \in CriadasPor(p) :
              /\ EntradaCanonica(e, p)
              /\ e.gecos = processar_nome(pedido[p].nome).val

\* C34 as amended: a call of cadastrar or of
\* cadastrar_sem_verificar_documento issues a counter modify or an add only
\* when the identifier, name, email, phone and password of its request are
\* accepted by their validators, and the entry it adds holds the
\* validators' outputs, but for gecos, which holds the ASCII
\* transliteration of the name validator's output.
C34_EscritaSoDeDadosValidados ==
    \A p \in Procs :
        /\ Escreveu(p) => CamposAceitos(p)
        /\ \A e \in CriadasPor(p) :
              /\ EntradaCanonica(e, p)
              /\ e.gecos = deunicode(processar_nome(pedido[p].nome).val)

C34_Witness ==
    \E p \in Procs : \E e \in CriadasPor(p) :
        /\ pc[p] = "fim"
        /\ ldap[p].username = Root2
        /\ pedido[p].dre = DreBom \o <<" ">>
        /\ pedido[p].nome = <<"a","n","a"," ","d","e"," ","S","a_agudo">>
        /\ e.dccDRE = Some(DreBom)
        /\ e.cn = <<"A","n","a">>
        /\ e.sn = <<"d","e"," ","S","a_agudo">>
        /\ e.gecos = <<"A","n","a"," ","d","e"," ","S","a">>
        /\ e.telephoneNumber # pedido[p].telefone
        /\ e.emailExterno # pedido[p].email

\* C35: the comparison of the names is reached only with a self-reported
\* name that parses, so an official name that does not parse always gives
\* NomesDiferentes, and no call writes unless the official name parsed.
C35_NomeOficialSemParseNaoCadastra ==
    \A p \in Procs :
        /\ Conferido(p) =>
              /\ from_str(pedido[p].nome).ok
              /\ ~from_str(juncao[p].siga.arg).ok =>
                    /\ ret[p] = R("NomesDiferentes", "-", pedido[p].nome, juncao[p].siga.arg)
                    /\ ~Escreveu(p)
        /\ Escreveu(p) =>
              /\ juncao[p].siga.tag = "AlunoDoCurso"
              /\ from_str(juncao[p].siga.arg).ok
              /\ from_str(pedido[p].nome) = from_str(juncao[p].siga.arg)

C35_Witness ==
    \E p \in Procs :
        /\ Conferido(p)
        /\ juncao[p].siga.arg = <<"A", "7">>
        /\ ~from_str(juncao[p].siga.arg).ok
        /\ ret[p].tag = "NomesDiferentes"

\* The self-reported name and the official name both fail to parse, and the
\* call ended on the error of the probe.
C35_WitnessAmbosFalham ==
    \E p \in Procs :
        /\ pc[p] = "fim"
        /\ juncao[p].siga.tag = "AlunoDoCurso"
        /\ ~from_str(juncao[p].siga.arg).ok
        /\ ~from_str(pedido[p].nome).ok
        /\ ret[p].tag = "ErroNoCadastro" /\ ret[p].sub = "ErroDeNome"

\* C36: the probe answers UsuarioDificil only for a name that has at least
\* one candidate, and after a search that found a candidate taken.
C36_DificilSoAposBusca ==
    \A p \in Procs :
        (ldap[p].modo = "consulta" /\ ldap[p].ret = ErroLdap("UsuarioDificil")) =>
            /\ usernames(from_str(pedido[p].nome).nome) # <<>>
            /\ Len(BuscasUid(p)) >= 1

\* The operations of the portal's lookup and of the probe.
OpsDeLeitura ==
    {"siga_get", "siga_post", "conectar", "bind", "search_dre", "search_uid", "unbind"}

\* p has not gone beyond the reconciliation: its only session is the probe's.
AntesDeProvisionar(p) == ldap[p].modo \in {"-", "consulta"}

\* A step of a call that has not gone beyond the reconciliation issues
\* only reads and leaves the entries and the counters as they were.
PassoDaConsultaSoLe ==
    \A p \in Procs :
        (AntesDeProvisionar(p) /\ ops'[p] # ops[p] /\ ldap'[p].modo = ldap[p].modo) =>
            /\ ops'[p][Len(ops'[p])].op \in OpsDeLeitura
            /\ contas' = contas
            /\ contador' = contador

ConsultaNaoEscreveu ==
    \A p \in Procs :
        AntesDeProvisionar(p) =>
            /\ \A i \in DOMAIN ops[p] : ops[p][i].op \in OpsDeLeitura
            /\ CriadasPor(p) = {}

\* C37: consultar_cadastro_ldap issues only bind, search and unbind and
\* leaves every entry and both counters unchanged, whatever it answers; a
\* call that fails before provisioning has changed nothing in the directory.
C37_ConsultaSoLe ==
    /\ []ConsultaNaoEscreveu
    /\ [][PassoDaConsultaSoLe]_vars

C37_Witness ==
    \E p \in Procs :
        /\ pc[p] = "fim"
        /\ AntesDeProvisionar(p)
        /\ ret[p].tag = "NomesDiferentes"
        /\ Len(BuscasUid(p)) >= 1
        /\ Indices(p, {"search_dre"}) # {}
        /\ Indices(p, {"unbind"}) # {}

\* The entry cadastrar_usuario adds when its clock reads what p's did.
EntradaNoTempoDe(p) == NovaConta(Anas, PedidoBase, <<"8">>, <<"1", "0">>, ret[p].arg, p)

Inteiro(s) == i64_valor(parse_i64(s).v)

DiaDe(segundos) == Inteiro(segundos) \div 86400

\* C38: the day of sambaKickoffTime and sambaPwdMustChange is the day of
\* dataRenovacao, which is shadowLastChange (and dataCriacao) plus
\* shadowMax: floor((now + 3600*24*60*60) / 86400) = floor(now / 86400) + 3600.
C38_KickoffNoDiaDaRenovacao ==
    \A p \in Procs :
        ret[p].tag = "Tempos" =>
            LET now == ret[p].arg
                e == EntradaNoTempoDe(p)
            IN  /\ (now + 3600 * 24 * 60 * 60) \div 86400 = now \div 86400 + 3600
                /\ e.sambaKickoffTime = ret[p].arg2.samba_kickoff
                /\ e.sambaPwdMustChange = e.sambaKickoffTime
                /\ e.dataRenovacao = ret[p].arg2.shadow_renovacao
                /\ e.shadowLastChange = ret[p].arg2.shadow_today
                /\ e.dataCriacao = e.shadowLastChange
                /\ DiaDe(e.sambaKickoffTime) = Inteiro(e.dataRenovacao)
                /\ Inteiro(e.dataRenovacao) =
                      Inteiro(e.shadowLastChange) + Inteiro(e.shadowMax)
                /\ Inteiro(e.shadowLastChange) = now \div 86400

C38_Witness ==
    \E p \in Procs :
        /\ ret[p].tag = "Tempos"
        /\ ret[p].arg = 20390 * 86400 + 86399
        /\ ret[p].arg2.shadow_renovacao = <<"2", "3", "9", "9", "0">>
        /\ DiaDe(ret[p].arg2.samba_kickoff) = 23990
        /\ EntradaNoTempoDe(p).shadowMax = <<"3", "6", "0", "0">>

\* The requests of the call of p, within the bounds of one attempt.
LimitesDaChamada(p) ==
    /\ NumOps(p, {"search_dre"}) <= 1
    /\ NumOps(p, {"search_uid"}) <= Pow2(MaxNomes - 1)
    /\ from_str(pedido[p].nome).ok =>
          NumOps(p, {"search_uid"}) <= Len(usernames(from_str(pedido[p].nome).nome))
    /\ NumOps(p, {"search_samba"}) <= 1
    /\ NumOps(p, {"modify"}) <= 5
    /\ NumOps(p, {"add"}) <= 1
    /\ NumOps(p, {"conectar"}) <= 2
    /\ NumOps(p, {"siga_get"}) <= 1

\* C39: every call of cadastrar whose requests all return reaches a final
\* result, and issues at most one consulta_dre search, at most 2^9 username
\* searches, one counter search, 5 counter modifies and one add.
C39_ChamadaTermina ==
    /\ [](\A p \in Procs : LimitesDaChamada(p))
    /\ \A p \in Procs : (pc[p] = "validar") ~> (pc[p] = "fim")

C39_Witness ==
    \E p \in Procs :
        /\ pc[p] = "fim"
        /\ NumOps(p, {"search_dre"}) = 1
        /\ NumOps(p, {"search_uid"}) = 2
        /\ NumOps(p, {"search_samba"}) = 1
        /\ NumOps(p, {"modify"}) = 5
        /\ ret[p] = R("ErroNoCadastro", "ErroSamba", <<>>, <<>>)

=============================================================================
